---- MODULE Spec2Model ----
(***************************************************************************)
(* Model of the RAG / ReAct demo scripts.                                  *)
(*   langchainRAG.py        interactive RAG session over a Chroma cloud    *)
(*                          collection (build phase, chat loop, memory)    *)
(*   langchain(pinecone).py one-shot RAG script over a Pinecone index      *)
(*   webScrapper_chatbot.py interactive loop of the CLI movie agent        *)
(* Text is a sequence of one-character strings.                            *)
(***************************************************************************)
EXTENDS Integers, Sequences, FiniteSets, TLC

\* ------------------------------------------------------------------ bounds
MaxRuns == 3
MaxQuestions == 2

\* --------------------------------------------------------- program constants
collection_name == "Langchain_store"
chunk_size == 1000
chunk_overlap == 200
K == 4

\* Another collection of the same Chroma database, never touched by the script.
OtherCollection == "Other_store"

Sessions == {1, 2}

\* ------------------------------------------------------------------- text
Whitespace == {" ", "\n"}

\* str.lower() on the characters the model uses
LowerChar(c) ==
  CASE c = "E" -> "e"
    [] c = "X" -> "x"
    [] c = "I" -> "i"
    [] c = "T" -> "t"
    [] c = "Q" -> "q"
    [] c = "U" -> "u"
    [] OTHER -> c

Lower(s) == [i \in 1..Len(s) |-> LowerChar(s[i])]

RECURSIVE LStrip(_)
LStrip(s) == IF s # <<>> /\ Head(s) \in Whitespace THEN LStrip(Tail(s)) ELSE s

RECURSIVE RStrip(_)
RStrip(s) ==
  IF s # <<>> /\ s[Len(s)] \in Whitespace THEN RStrip(SubSeq(s, 1, Len(s) - 1)) ELSE s

Strip(s) == LStrip(RStrip(s))

SelectExt(files, ext) == SelectSeq(files, LAMBDA f : f.ext = ext)

\* -------------------------------------------------------- document sources
\* A file: name, extension, whether reading it succeeds, and the text of each
\* Document its loader yields (one per PDF page, one per text file).
\* A URL: name, whether fetching it succeeds, and the text of its page.
FileA == [name |-> "a.txt", ext |-> "txt", readable |-> TRUE,
          pages |-> << <<"h", "i", ".">> >>]
FileB == [name |-> "b.pdf", ext |-> "pdf", readable |-> TRUE,
          pages |-> << <<"o", "k">>, <<" ">> >>]
FileC == [name |-> "c.txt", ext |-> "txt", readable |-> FALSE,
          pages |-> << <<"n", "o">> >>]
FileD == [name |-> "d.md", ext |-> "md", readable |-> TRUE,
          pages |-> << <<"m", "d">> >>]
FileE == [name |-> "e.pdf", ext |-> "pdf", readable |-> FALSE,
          pages |-> << <<"p">> >>]

Dirs == { <<>>, <<FileA>>, <<FileA, FileB>>, <<FileD, FileB>>,
          <<FileA, FileC, FileB>>, <<FileE, FileA>> }

UrlA == [name |-> "http://a", readable |-> TRUE, pages |-> << <<"w", "a">> >>]
UrlB == [name |-> "http://b", readable |-> FALSE, pages |-> << <<"w", "b">> >>]
UrlC == [name |-> "http://c", readable |-> TRUE, pages |-> << <<"w", "c">> >>]

NoUrls == [given |-> FALSE, list |-> <<>>]
UrlArgs == { NoUrls, [given |-> TRUE, list |-> <<>>],
             [given |-> TRUE, list |-> <<UrlA>>],
             [given |-> TRUE, list |-> <<UrlA, UrlC>>],
             [given |-> TRUE, list |-> <<UrlA, UrlB, UrlC>>] }

\* path argument: given = a non-empty string, exists = os.path.exists(path)
PathArgs == { [given |-> FALSE, exists |-> FALSE, files |-> <<>>],
              [given |-> TRUE, exists |-> FALSE, files |-> <<>>] }
            \cup { [given |-> TRUE, exists |-> TRUE, files |-> d] : d \in Dirs }

Documents(f) == [i \in 1..Len(f.pages) |-> [page_content |-> f.pages[i], source |-> f.name]]

RECURSIVE LoadAll(_)
LoadAll(fs) == IF fs = <<>> THEN <<>> ELSE Documents(Head(fs)) \o LoadAll(Tail(fs))

\* A loader run over a list of sources: the first source that cannot be read
\* raises, and the exception leaves the loader.
LoaderLoad(fs) ==
  IF \E i \in 1..Len(fs) : ~fs[i].readable
  THEN [err |-> "ReadError", docs |-> <<>>]
  ELSE [err |-> "", docs |-> LoadAll(fs)]

\* DirectoryLoader(path, glob="**/*.<ext>").load()
DirectoryLoader(files, ext) == LoaderLoad(SelectExt(files, ext))

\* variant: a missing source gives an empty document list instead of raising
load_documents_noraise(path, urls) ==
  IF path.given /\ path.exists
  THEN LET pdf == DirectoryLoader(path.files, "pdf")
           txt == DirectoryLoader(path.files, "txt")
       IN  IF pdf.err # "" THEN pdf
           ELSE IF txt.err # "" THEN txt
           ELSE [err |-> "", docs |-> pdf.docs \o txt.docs]
  ELSE IF urls.given /\ urls.list # <<>>
  THEN LoaderLoad(urls.list)
  ELSE [err |-> "", docs |-> <<>>]

load_documents(path, urls) ==
  IF path.given /\ path.exists
  THEN LET pdf == DirectoryLoader(path.files, "pdf")
           txt == DirectoryLoader(path.files, "txt")
       IN  IF pdf.err # "" THEN pdf
           ELSE IF txt.err # "" THEN txt
           ELSE [err |-> "", docs |-> pdf.docs \o txt.docs]
  ELSE IF urls.given /\ urls.list # <<>>
  THEN LoaderLoad(urls.list)
  ELSE [err |-> "ValueError", docs |-> <<>>]

\* ------------------------------------------------------------------ chunker
\* RecursiveCharacterTextSplitter(keep_separator=True, strip_whitespace=True)
\* variant: the list without its last entry, the empty separator
separators_nochar == << <<"\n", "\n">>, <<"\n">>, <<".">>, <<"!">>, <<"?">>, <<" ">> >>

separators == << <<"\n", "\n">>, <<"\n">>, <<".">>, <<"!">>, <<"?">>, <<" ">>, <<>> >>

StartsWith(text, sep) == Len(text) >= Len(sep) /\ SubSeq(text, 1, Len(sep)) = sep

Contains(text, sep) ==
  \E i \in 1..(Len(text) - Len(sep) + 1) : SubSeq(text, i, i + Len(sep) - 1) = sep

NonEmpty(ss) == SelectSeq(ss, LAMBDA x : x # <<>>)

\* re.split("(sep)", text) with every separator glued to the piece after it
RECURSIVE SplitKeep(_, _, _)
SplitKeep(text, sep, cur) ==
  IF text = <<>> THEN <<cur>>
  ELSE IF StartsWith(text, sep)
       THEN <<cur>> \o SplitKeep(SubSeq(text, Len(sep) + 1, Len(text)), sep, sep)
       ELSE SplitKeep(Tail(text), sep, Append(cur, Head(text)))

_split_text_with_regex(text, sep) ==
  IF sep # <<>> THEN NonEmpty(SplitKeep(text, sep, <<>>))
  ELSE [i \in 1..Len(text) |-> <<text[i]>>]

RECURSIVE Join(_, _)
Join(parts, sep) ==
  IF parts = <<>> THEN <<>>
  ELSE IF Len(parts) = 1 THEN Head(parts)
  ELSE Head(parts) \o sep \o Join(Tail(parts), sep)

\* _join_docs: the joined text, stripped; nothing when it is empty
_join_docs(parts, sep) ==
  LET text == Strip(Join(parts, sep)) IN IF text = <<>> THEN <<>> ELSE <<text>>

\* the while loop of _merge_splits that drops leading pieces of current_doc
RECURSIVE PopLoop(_, _, _, _, _, _)
PopLoop(cur, total, len, sepLen, size, overlap) ==
  IF cur # <<>>
     /\ (total > overlap
         \/ (total + len + (IF Len(cur) > 0 THEN sepLen ELSE 0) > size /\ total > 0))
  THEN PopLoop(Tail(cur),
               total - (Len(Head(cur)) + (IF Len(cur) > 1 THEN sepLen ELSE 0)),
               len, sepLen, size, overlap)
  ELSE [cur |-> cur, total |-> total]

RECURSIVE MergeLoop(_, _, _, _, _, _, _)
MergeLoop(splits, docs, cur, total, sep, size, overlap) ==
  IF splits = <<>> THEN docs \o _join_docs(cur, sep)
  ELSE LET d == Head(splits)
           len == Len(d)
           sepLen == Len(sep)
           over == total + len + (IF Len(cur) > 0 THEN sepLen ELSE 0) > size
           flush == over /\ Len(cur) > 0
           docs2 == IF flush THEN docs \o _join_docs(cur, sep) ELSE docs
           popped == IF flush THEN PopLoop(cur, total, len, sepLen, size, overlap)
                     ELSE [cur |-> cur, total |-> total]
           cur2 == Append(popped.cur, d)
           total2 == popped.total + len + (IF Len(cur2) > 1 THEN sepLen ELSE 0)
       IN  MergeLoop(Tail(splits), docs2, cur2, total2, sep, size, overlap)

\* variant: the pieces left in current_doc after the loop are not emitted
_merge_splits_nolast(splits, sep, size, overlap) ==
  LET docs == MergeLoop(splits, <<>>, <<>>, 0, sep, size, overlap)
  IN  IF docs = <<>> THEN docs ELSE SubSeq(docs, 1, Len(docs) - 1)

_merge_splits(splits, sep, size, overlap) == MergeLoop(splits, <<>>, <<>>, 0, sep, size, overlap)

\* index of the first separator that is "" or occurs in the text
RECURSIVE PickSeparator(_, _, _)
PickSeparator(text, seps, i) ==
  IF i >= Len(seps) THEN Len(seps)
  ELSE IF seps[i] = <<>> \/ Contains(text, seps[i]) THEN i
  ELSE PickSeparator(text, seps, i + 1)

RECURSIVE _split_text(_, _, _, _)
RECURSIVE SplitLoop(_, _, _, _, _)
SplitLoop(splits, good, newSeps, size, overlap) ==
  LET merged == IF good # <<>> THEN _merge_splits(good, <<>>, size, overlap) ELSE <<>>
  IN  IF splits = <<>> THEN merged
      ELSE LET s == Head(splits) IN
           IF Len(s) < size
           THEN SplitLoop(Tail(splits), Append(good, s), newSeps, size, overlap)
           ELSE merged
                \o (IF newSeps = <<>> THEN <<s>> ELSE _split_text(s, newSeps, size, overlap))
                \o SplitLoop(Tail(splits), <<>>, newSeps, size, overlap)

_split_text(text, seps, size, overlap) ==
  LET i == PickSeparator(text, seps, 1)
      separator == seps[i]
      found == separator # <<>> /\ Contains(text, separator)
      newSeps == IF found THEN SubSeq(seps, i + 1, Len(seps)) ELSE <<>>
  IN  SplitLoop(_split_text_with_regex(text, separator), <<>>, newSeps, size, overlap)

Chunks(doc, size, overlap) ==
  LET texts == _split_text(doc.page_content, separators, size, overlap)
  IN  [i \in 1..Len(texts) |-> [page_content |-> texts[i], source |-> doc.source]]

RECURSIVE split_documents(_, _, _)
split_documents(documents, size, overlap) ==
  IF documents = <<>> THEN <<>>
  ELSE Chunks(Head(documents), size, overlap) \o split_documents(Tail(documents), size, overlap)

\* langchain(pinecone).py gives no separators: the splitter's default list
pine_separators == << <<"\n", "\n">>, <<"\n">>, <<" ">>, <<>> >>

PineChunks(doc, size, overlap) ==
  LET texts == _split_text(doc.page_content, pine_separators, size, overlap)
  IN  [i \in 1..Len(texts) |-> [page_content |-> texts[i], source |-> doc.source]]

RECURSIVE pine_split_documents(_, _, _)
pine_split_documents(documents, size, overlap) ==
  IF documents = <<>> THEN <<>>
  ELSE PineChunks(Head(documents), size, overlap)
       \o pine_split_documents(Tail(documents), size, overlap)

\* ------------------------------------------------------------ input lines
Exit == <<"e", "x", "i", "t">>
Quit == <<"q", "u", "i", "t">>

Lines == { <<>>, Exit, Quit, <<"E", "X", "I", "T">>, <<"Q", "u", "i", "T">>,
           <<" ", "e", "x", "i", "t">>, <<"q", "u", "i", "t", " ">>, <<"h", "i">> }

\* variant: the comparison without lower()
IsExit_exact(line) == line \in {Exit, Quit}

\* query.lower() in ["exit", "quit"]
IsExit(line) == Lower(line) \in {Exit, Quit}

\* texts the hosted model may return
Answers == { <<"o", "k">>, <<"n", "o">> }

\* --------------------------------------------------------- prompt assembly
Lit(str) == [kind |-> "lit", lit |-> str, text |-> <<>>]
DocSeg(d) == [kind |-> "doc", lit |-> d.source, text |-> d.page_content]
ReprSeg(t) == [kind |-> "repr", lit |-> "", text |-> t]
StrSeg(t) == [kind |-> "str", lit |-> "", text |-> t]

HumanMessage(content) == [role |-> "human", content |-> content]
AIMessage(content) == [role |-> "ai", content |-> content]

\* str() of the list of retrieved Documents
RECURSIVE StrDocs(_)
StrDocs(ctx) ==
  IF ctx = <<>> THEN <<>>
  ELSE IF Len(ctx) = 1 THEN <<DocSeg(Head(ctx))>>
  ELSE <<DocSeg(Head(ctx)), Lit(", ")>> \o StrDocs(Tail(ctx))

StrList(ctx) == <<Lit("[")>> \o StrDocs(ctx) \o <<Lit("]")>>

\* str() of the chain input {"question": query}
StrDict(x) == <<Lit("{'question': "), ReprSeg(x.question), Lit("}")>>

\* "\n".join("Human: ..." / "AI: ..." for m in chat_history.messages)
RECURSIVE HistoryString(_)
HistoryString(messages) ==
  IF messages = <<>> THEN <<>>
  ELSE LET m == Head(messages)
           line == <<Lit(IF m.role = "human" THEN "Human: " ELSE "AI: "), StrSeg(m.content)>>
       IN  IF Len(messages) = 1 THEN line
           ELSE line \o <<Lit("\n")>> \o HistoryString(Tail(messages))

\* the sentence the template tells the model to answer with
Instruction == "\"I could not find the answer in the document.\""

\* variant: with nothing retrieved only the question is rendered
PromptFormat_noinstruction(inp) ==
  IF inp.context = <<>>
  THEN << Lit("Question:\n") >> \o StrDict(inp.question) \o << Lit("\n\nAnswer:") >>
  ELSE << Lit("You are an expert assistant. Use ONLY the following context to answer.\n"),
          Lit("If the answer is not in the context, say: "),
          Lit(Instruction),
          Lit("\n\n"),
          Lit("Context:\n") >>
       \o StrList(inp.context)
       \o << Lit("\n\n"), Lit("Question:\n") >>
       \o StrDict(inp.question)
       \o << Lit("\n\nAnswer:") >>

\* PromptTemplate(input_variables=["context", "question"]).format of the
\* mapping the first chain step produced
PromptFormat(inp) ==
  << Lit("You are an expert assistant. Use ONLY the following context to answer.\n"),
     Lit("If the answer is not in the context, say: "),
     Lit(Instruction),
     Lit("\n\n"),
     Lit("Context:\n") >>
  \o StrList(inp.context)
  \o << Lit("\n\n"), Lit("Question:\n") >>
  \o StrDict(inp.question)
  \o << Lit("\n\nAnswer:") >>

\* the first step of rag_chain: context, question and chat_history
ChainInput(x, ctx, messages) ==
  [context |-> ctx, question |-> x, chat_history |-> HistoryString(messages)]

\* ------------------------------------------------------------------- state
VARIABLES
  store,             \* Chroma database: collection name -> [cid, entries]
  runs,              \* launches of langchainRAG.py so far
  pc,                \* per session: the next step of the script
  run,               \* per session: number of its launch
  path,              \* per session: the path given to build_vector_store
  chunks,            \* per session: result of split_documents
  existing_collections, \* per session: names listed at line 64
  vectorstore,       \* per session: cid of the collection its Chroma wrapper holds
  chat_history,      \* per session: messages of InMemoryChatMessageHistory
  query,             \* per session: the line being processed
  result,            \* per session: the text rag_chain.invoke returned
  prompt,            \* per session: the prompt most recently assembled
  log,               \* per session: external calls reached, in order, with outcome
  error,             \* per session: the exception that ended the script
  answered,          \* per session: questions whose generation succeeded, with answers
  asked              \* per session: questions accepted so far

ragVars == <<store, runs, pc, run, path, chunks, existing_collections, vectorstore,
             chat_history, query, result, prompt, log, error, answered, asked>>

VARIABLES
  pine_index,        \* Pinecone project: index name -> set of vectors
  pine_runs,         \* launches of langchain(pinecone).py so far
  pine_pc,           \* the next step of the script
  pine_dir,          \* the files under docs/ at this launch
  pine_docs,         \* the Documents loader.load() returned
  pine_chunks,       \* result of text_splitter.split_documents
  pine_prompt,       \* the prompt assembled for the query
  pine_answer,       \* the text rag_chain.invoke returned
  pine_log,          \* external calls reached, in order, with outcome
  pine_error,        \* the exception that ended the script
  pine_last,         \* the latest completed build: its docs/ and the index size after it
  pine_prev          \* the completed build before that one

pineVars == <<pine_index, pine_runs, pine_pc, pine_dir, pine_docs, pine_chunks, pine_prompt,
              pine_answer, pine_log, pine_error, pine_last, pine_prev>>

VARIABLES
  load_pc,           \* "call" before load_documents runs, "done" after
  load_in,           \* the arguments [path, urls]
  load_out           \* what the call produced: [err, docs]

loadVars == <<load_pc, load_in, load_out>>

VARIABLES
  cli_pc,            \* "input", "stream", "closed" or "crashed"
  cli_query,         \* the line read at line 209
  cli_stream,        \* the updates agent.stream yields for the query
  cli_pos,           \* how many of them the for loop has consumed
  cli_final,         \* final_answer: [set, text]
  cli_trace,         \* lines printed for the current query
  cli_asked          \* agent.stream calls so far

cliVars == <<cli_pc, cli_query, cli_stream, cli_pos, cli_final, cli_trace, cli_asked>>

VARIABLES
  tool_pc,           \* "idle", "fetch" (inside get_now_playing_tmdb), "theaters" or "done"
  tool_name,         \* the tool the agent called
  tool_args,         \* its arguments [title, city]
  tool_page,         \* page of the for loop of get_now_playing_tmdb
  tool_results,      \* results accumulated by get_now_playing_tmdb
  tool_movie,        \* find_movie_in_city: the matching movie
  tool_log,          \* HTTP requests of this call, in order, with outcome
  tool_out           \* what the tool returned or raised

toolVars == <<tool_pc, tool_name, tool_args, tool_page, tool_results, tool_movie, tool_log,
              tool_out>>

VARIABLES
  fn_pc,             \* "idle", "call" before the function runs, "done" after
  fn_in,             \* the arguments of the call
  fn_out             \* what the call returned

fnVars == <<fn_pc, fn_in, fn_out>>

VARIABLES
  tmdb_pc,           \* "idle", "fetch" (inside get_now_playing_tmdb), "theaters" or "done"
  tmdb_caller,       \* "main", or "direct" for a call of get_now_playing_tmdb alone
  tmdb_key,          \* the api_key argument
  tmdb_google,       \* GOOGLE_API_KEY of the environment ("" when unset)
  tmdb_page,         \* page of the while loop
  tmdb_results,      \* results accumulated by the loop
  tmdb_requests,     \* requests sent to TMDb, in order, with the responses
  tmdb_movies,       \* how get_now_playing_tmdb ended: [state, value]
  tmdb_main,         \* how main() ended: [state, value]
  tmdb_printed       \* lines main() printed

tmdbVars == <<tmdb_pc, tmdb_caller, tmdb_key, tmdb_google, tmdb_page, tmdb_results,
              tmdb_requests, tmdb_movies, tmdb_main, tmdb_printed>>

notRag == <<pineVars, loadVars, cliVars, toolVars, fnVars, tmdbVars>>
notPine == <<ragVars, loadVars, cliVars, toolVars, fnVars, tmdbVars>>
notLoad == <<ragVars, pineVars, cliVars, toolVars, fnVars, tmdbVars>>
notCli == <<ragVars, pineVars, loadVars, toolVars, fnVars, tmdbVars>>
notTool == <<ragVars, pineVars, loadVars, cliVars, fnVars, tmdbVars>>
notFn == <<ragVars, pineVars, loadVars, cliVars, toolVars, tmdbVars>>
notTmdb == <<ragVars, pineVars, loadVars, cliVars, toolVars, fnVars>>

vars == <<ragVars, pineVars, loadVars, cliVars, toolVars, fnVars, tmdbVars>>

NoPath == [given |-> FALSE, exists |-> FALSE, files |-> <<>>]

RagInit ==
  /\ store = (OtherCollection :> [cid |-> 0, entries |-> {}])
  /\ runs = 0
  /\ pc = [p \in Sessions |-> "idle"]
  /\ run = [p \in Sessions |-> 0]
  /\ path = [p \in Sessions |-> NoPath]
  /\ chunks = [p \in Sessions |-> <<>>]
  /\ existing_collections = [p \in Sessions |-> {}]
  /\ vectorstore = [p \in Sessions |-> 0]
  /\ chat_history = [p \in Sessions |-> <<>>]
  /\ query = [p \in Sessions |-> <<>>]
  /\ result = [p \in Sessions |-> <<>>]
  /\ prompt = [p \in Sessions |-> <<>>]
  /\ log = [p \in Sessions |-> <<>>]
  /\ error = [p \in Sessions |-> ""]
  /\ answered = [p \in Sessions |-> <<>>]
  /\ asked = [p \in Sessions |-> 0]

Stopped(p) == pc[p] \in {"idle", "closed", "crashed"}

\* an uncaught exception ends the script
Raise(p, e) ==
  /\ pc' = [pc EXCEPT ![p] = "crashed"]
  /\ error' = [error EXCEPT ![p] = e]

Goto(p, l) ==
  /\ pc' = [pc EXCEPT ![p] = l]
  /\ UNCHANGED error

\* an external call is reached; ok tells whether it returned normally
Call(p, name, ok) == log' = [log EXCEPT ![p] = Append(@, [call |-> name, ok |-> ok])]

\* The script is started (again) with some path.
Launch(p, a) ==
  /\ Stopped(p)
  /\ runs < MaxRuns
  /\ runs' = runs + 1
  /\ run' = [run EXCEPT ![p] = runs + 1]
  /\ path' = [path EXCEPT ![p] = a]
  /\ pc' = [pc EXCEPT ![p] = "load"]
  /\ chunks' = [chunks EXCEPT ![p] = <<>>]
  /\ existing_collections' = [existing_collections EXCEPT ![p] = {}]
  /\ vectorstore' = [vectorstore EXCEPT ![p] = 0]
  /\ chat_history' = [chat_history EXCEPT ![p] = <<>>]
  /\ query' = [query EXCEPT ![p] = <<>>]
  /\ result' = [result EXCEPT ![p] = <<>>]
  /\ prompt' = [prompt EXCEPT ![p] = <<>>]
  /\ log' = [log EXCEPT ![p] = <<>>]
  /\ error' = [error EXCEPT ![p] = ""]
  /\ answered' = [answered EXCEPT ![p] = <<>>]
  /\ asked' = [asked EXCEPT ![p] = 0]
  /\ UNCHANGED store
  /\ UNCHANGED notRag

\* build_vector_store, lines 47-51: load_documents(path=path), split_documents
LoadAndSplit(p) ==
  /\ pc[p] = "load"
  /\ LET docs == load_documents(path[p], NoUrls) IN
       IF docs.err # ""
       THEN /\ Raise(p, docs.err)
            /\ UNCHANGED chunks
       ELSE /\ Goto(p, "embeddings")
            /\ chunks' = [chunks EXCEPT ![p] = split_documents(docs.docs, chunk_size, chunk_overlap)]
  /\ UNCHANGED <<store, runs, run, path, existing_collections, vectorstore, chat_history,
                 query, result, prompt, log, answered, asked>>
  /\ UNCHANGED notRag

\* line 53: HuggingFaceEmbeddings(...)
MakeEmbeddings(p, ok) ==
  /\ pc[p] = "embeddings"
  /\ Call(p, "HuggingFaceEmbeddings", ok)
  /\ IF ok THEN Goto(p, "client") ELSE Raise(p, "EmbeddingError")
  /\ UNCHANGED <<store, runs, run, path, chunks, existing_collections, vectorstore,
                 chat_history, query, result, prompt, answered, asked>>
  /\ UNCHANGED notRag

\* variant: a failure to reach the Chroma cloud is ignored
MakeClient_ignore(p, ok) ==
  /\ pc[p] = "client"
  /\ Call(p, "CloudClient", ok)
  /\ Goto(p, "list")
  /\ UNCHANGED <<store, runs, run, path, chunks, existing_collections, vectorstore,
                 chat_history, query, result, prompt, answered, asked>>
  /\ UNCHANGED notRag

\* lines 55-59: chromadb.CloudClient(...)
MakeClient(p, ok) ==
  /\ pc[p] = "client"
  /\ Call(p, "CloudClient", ok)
  /\ IF ok THEN Goto(p, "list") ELSE Raise(p, "StoreError")
  /\ UNCHANGED <<store, runs, run, path, chunks, existing_collections, vectorstore,
                 chat_history, query, result, prompt, answered, asked>>
  /\ UNCHANGED notRag

\* variant: the old collection is found only when it is the only collection
MustDelete_only(names) == names = {collection_name}

\* the test of line 65 on the names listed at line 64
MustDelete(names) == collection_name \in names

\* lines 64-65: client.list_collections() and the membership test
ListCollections(p, ok) ==
  /\ pc[p] = "list"
  /\ Call(p, "list_collections", ok)
  /\ IF ok
     THEN /\ existing_collections' = [existing_collections EXCEPT ![p] = DOMAIN store]
          /\ Goto(p, IF MustDelete(DOMAIN store) THEN "delete" ELSE "create")
     ELSE /\ Raise(p, "StoreError")
          /\ UNCHANGED existing_collections
  /\ UNCHANGED <<store, runs, run, path, chunks, vectorstore, chat_history,
                 query, result, prompt, answered, asked>>
  /\ UNCHANGED notRag

\* line 67: client.delete_collection(collection_name)
DeleteCollection(p, ok) ==
  /\ pc[p] = "delete"
  /\ Call(p, "delete_collection", ok /\ collection_name \in DOMAIN store)
  /\ IF ok /\ collection_name \in DOMAIN store
     THEN /\ store' = [n \in DOMAIN store \ {collection_name} |-> store[n]]
          /\ Goto(p, "create")
     ELSE /\ Raise(p, "StoreError")
          /\ UNCHANGED store
  /\ UNCHANGED <<runs, run, path, chunks, existing_collections, vectorstore, chat_history,
                 query, result, prompt, answered, asked>>
  /\ UNCHANGED notRag

\* line 69, first half: the Chroma wrapper calls get_or_create_collection
CreateCollection(p, ok) ==
  /\ pc[p] = "create"
  /\ Call(p, "get_or_create_collection", ok)
  /\ IF ok
     THEN /\ IF collection_name \in DOMAIN store
             THEN /\ vectorstore' = [vectorstore EXCEPT ![p] = store[collection_name].cid]
                  /\ UNCHANGED store
             ELSE /\ vectorstore' = [vectorstore EXCEPT ![p] = run[p]]
                  /\ store' = [n \in DOMAIN store \cup {collection_name} |->
                                 IF n = collection_name
                                 THEN [cid |-> run[p], entries |-> {}]
                                 ELSE store[n]]
          /\ Goto(p, "upsert")
     ELSE /\ Raise(p, "StoreError")
          /\ UNCHANGED <<store, vectorstore>>
  /\ UNCHANGED <<runs, run, path, chunks, existing_collections, chat_history,
                 query, result, prompt, answered, asked>>
  /\ UNCHANGED notRag

\* the collection a wrapper holds is still the one stored under the name
Live(cid) == collection_name \in DOMAIN store /\ store[collection_name].cid = cid

\* entries written for the chunks of one build, each under a fresh uuid4
NewEntries(r, cs) ==
  { [id |-> <<r, i>>, page_content |-> cs[i].page_content, source |-> cs[i].source]
      : i \in 1..Len(cs) }

\* line 69, second half: the chunks are embedded and upserted (no call is made
\* for an empty list of chunks)
Upsert(p, ok) ==
  /\ pc[p] = "upsert"
  /\ IF chunks[p] = <<>>
     THEN /\ ok
          /\ Goto(p, "chain")
          /\ UNCHANGED <<store, log>>
     ELSE /\ Call(p, "upsert", ok /\ Live(vectorstore[p]))
          /\ IF ok /\ Live(vectorstore[p])
             THEN /\ store' = [store EXCEPT ![collection_name].entries =
                                 @ \cup NewEntries(run[p], chunks[p])]
                  /\ Goto(p, "chain")
             ELSE /\ Raise(p, "StoreError")
                  /\ UNCHANGED store
  /\ UNCHANGED <<runs, run, path, chunks, existing_collections, vectorstore, chat_history,
                 query, result, prompt, answered, asked>>
  /\ UNCHANGED notRag

\* line 124: build_rag_chain(vector_store) creates the empty chat history
build_rag_chain(p) ==
  /\ pc[p] = "chain"
  /\ chat_history' = [chat_history EXCEPT ![p] = <<>>]
  /\ Goto(p, "input")
  /\ UNCHANGED <<store, runs, run, path, chunks, existing_collections, vectorstore,
                 query, result, prompt, log, answered, asked>>
  /\ UNCHANGED notRag

RECURSIVE Sum(_, _)
Sum(f, S) == IF S = {} THEN 0 ELSE LET x == CHOOSE y \in S : TRUE IN f[x] + Sum(f, S \ {x})

TotalAsked == Sum(asked, Sessions)

\* lines 129-131: input() and the exit test
ReadLine(p, line) ==
  /\ pc[p] = "input"
  /\ query' = [query EXCEPT ![p] = line]
  /\ IF IsExit(line)
     THEN /\ Goto(p, "closed")
          /\ UNCHANGED asked
     ELSE /\ TotalAsked < MaxQuestions
          /\ asked' = [asked EXCEPT ![p] = @ + 1]
          /\ Goto(p, "retrieve")
  /\ UNCHANGED <<store, runs, run, path, chunks, existing_collections, vectorstore,
                 chat_history, result, prompt, log, answered>>
  /\ UNCHANGED notRag

\* sequences of n distinct members of S
Orderings(S, n) ==
  { s \in [1..n -> S] : \A i, j \in 1..n : i # j => s[i] # s[j] }

Min(a, b) == IF a < b THEN a ELSE b

\* similarity search with k = 4: some k entries (all, when there are fewer), in
\* the order of the scores the embedding gives them
TopK(entries, k) == Orderings(entries, Min(k, Cardinality(entries)))

AsDocuments(es) ==
  [i \in 1..Len(es) |-> [page_content |-> es[i].page_content, source |-> es[i].source]]

\* variant: a failed retrieval is replaced by an empty context
Retrieve_empty(p, ok) ==
  /\ pc[p] = "retrieve"
  /\ Call(p, "similarity_search", ok /\ Live(vectorstore[p]))
  /\ \E ctx \in (IF ok /\ Live(vectorstore[p])
                  THEN TopK(store[collection_name].entries, K) ELSE {<<>>}) :
       prompt' = [prompt EXCEPT ![p] =
         PromptFormat(ChainInput([question |-> query[p]], AsDocuments(ctx), chat_history[p]))]
  /\ Goto(p, "generate")
  /\ UNCHANGED <<store, runs, run, path, chunks, existing_collections, vectorstore,
                 chat_history, query, result, answered, asked>>
  /\ UNCHANGED notRag

\* line 133, first step of the chain: retriever.invoke(x["question"]), the
\* passthrough and the chat-history string, then the prompt
Retrieve(p, ok) ==
  /\ pc[p] = "retrieve"
  /\ Call(p, "similarity_search", ok /\ Live(vectorstore[p]))
  /\ IF ok /\ Live(vectorstore[p])
     THEN /\ \E ctx \in TopK(store[collection_name].entries, K) :
               prompt' = [prompt EXCEPT ![p] =
                 PromptFormat(ChainInput([question |-> query[p]], AsDocuments(ctx),
                                         chat_history[p]))]
          /\ Goto(p, "generate")
     ELSE /\ Raise(p, "RetrievalUnavailable")
          /\ UNCHANGED prompt
  /\ UNCHANGED <<store, runs, run, path, chunks, existing_collections, vectorstore,
                 chat_history, query, result, answered, asked>>
  /\ UNCHANGED notRag

\* variant: after the model call the loop reads the next line at once
Generate_early(p, ok, text) ==
  /\ pc[p] = "generate"
  /\ Call(p, "llm", ok)
  /\ IF ok
     THEN /\ result' = [result EXCEPT ![p] = text]
          /\ answered' = [answered EXCEPT ![p] = Append(@, <<query[p], text>>)]
          /\ Goto(p, "input")
     ELSE /\ Raise(p, "GenerationFailed")
          /\ UNCHANGED <<result, answered>>
  /\ UNCHANGED <<store, runs, run, path, chunks, existing_collections, vectorstore,
                 chat_history, query, prompt, asked>>
  /\ UNCHANGED notRag

\* line 133, rest of the chain: the model call and StrOutputParser
Generate(p, ok, text) ==
  /\ pc[p] = "generate"
  /\ Call(p, "llm", ok)
  /\ IF ok
     THEN /\ result' = [result EXCEPT ![p] = text]
          /\ answered' = [answered EXCEPT ![p] = Append(@, <<query[p], text>>)]
          /\ Goto(p, "append")
     ELSE /\ Raise(p, "GenerationFailed")
          /\ UNCHANGED <<result, answered>>
  /\ UNCHANGED <<store, runs, run, path, chunks, existing_collections, vectorstore,
                 chat_history, query, prompt, asked>>
  /\ UNCHANGED notRag

\* lines 137-138 (and the read-only print loop of lines 141-145)
\* variant: the answer is stored before the question
add_messages_swapped(messages, q, r) == Append(Append(messages, AIMessage(r)), HumanMessage(q))

\* variant: the memory keeps the latest turn only
add_messages_window(messages, q, r) == <<HumanMessage(q), AIMessage(r)>>

add_messages(messages, q, r) == Append(Append(messages, HumanMessage(q)), AIMessage(r))

UpdateMemory(p) ==
  /\ pc[p] = "append"
  /\ chat_history' = [chat_history EXCEPT ![p] = add_messages(@, query[p], result[p])]
  /\ Goto(p, "input")
  /\ UNCHANGED <<store, runs, run, path, chunks, existing_collections, vectorstore,
                 query, result, prompt, log, answered, asked>>
  /\ UNCHANGED notRag

\* one step of a session, its inputs drawn from the given sets
Step(p, paths, lines, texts) ==
  \/ \E a \in paths : Launch(p, a)
  \/ LoadAndSplit(p)
  \/ \E ok \in BOOLEAN : MakeEmbeddings(p, ok)
  \/ \E ok \in BOOLEAN : MakeClient(p, ok)
  \/ \E ok \in BOOLEAN : ListCollections(p, ok)
  \/ \E ok \in BOOLEAN : DeleteCollection(p, ok)
  \/ \E ok \in BOOLEAN : CreateCollection(p, ok)
  \/ \E ok \in BOOLEAN : Upsert(p, ok)
  \/ build_rag_chain(p)
  \/ \E line \in lines : ReadLine(p, line)
  \/ \E ok \in BOOLEAN : Retrieve(p, ok)
  \/ \E ok \in BOOLEAN, text \in texts : Generate(p, ok, text)
  \/ UpdateMemory(p)

\* ------------------------------------------------- langchain(pinecone).py
INDEX_NAME == "rag-index"
pine_chunk_size == 500
pine_chunk_overlap == 100

\* line 89
pine_query ==
  <<"W", "h", "e", "n", " ", "i", "s", " ", "t", "h", "e", " ", "i", "n", "v",
    "e", "s", "t", "i", "g", "a", "t", "i", "o", "n", " ", "r", "e", "v",
    "e", "a", "l", "s", "?">>

\* the PromptTemplate of lines 70-82, formatted with the retrieved documents
\* and the question string
PinePromptFormat(inp) ==
  << Lit("\nYou are an expert assistant. Use ONLY the following context to answer.\nIf the answer is not in the context, say:\n"),
     Lit(Instruction),
     Lit("\n"),
     Lit("Context:\n") >>
  \o StrList(inp.context)
  \o << Lit("\n"), Lit("Question:\n"), StrSeg(inp.question), Lit("\nAnswer:\n") >>

NoBuild == [set |-> FALSE, dir |-> <<>>, count |-> 0, duplicates |-> FALSE]

\* two vectors written for the same chunk of the same file
Duplicates(entries) ==
  \E e1, e2 \in entries :
    /\ e1 # e2
    /\ e1.source = e2.source /\ e1.page_content = e2.page_content /\ e1.id[2] = e2.id[2]

Built(d, entries) ==
  [set |-> TRUE, dir |-> d, count |-> Cardinality(entries), duplicates |-> Duplicates(entries)]

PineInit ==
  /\ pine_index = [n \in {} |-> {}]
  /\ pine_runs = 0
  /\ pine_pc = "idle"
  /\ pine_dir = <<>>
  /\ pine_docs = <<>>
  /\ pine_chunks = <<>>
  /\ pine_prompt = <<>>
  /\ pine_answer = <<>>
  /\ pine_log = <<>>
  /\ pine_error = ""
  /\ pine_last = NoBuild
  /\ pine_prev = NoBuild

PineRaise(e) == pine_pc' = "crashed" /\ pine_error' = e

PineGoto(l) == pine_pc' = l /\ UNCHANGED pine_error

PineCall(name, ok) == pine_log' = Append(pine_log, [call |-> name, ok |-> ok])

\* The script is started (again); docs/ holds some files.
PineLaunch(d) ==
  /\ pine_pc \in {"idle", "done", "crashed"}
  /\ pine_runs < MaxRuns
  /\ pine_runs' = pine_runs + 1
  /\ pine_dir' = d
  /\ pine_docs' = <<>>
  /\ pine_pc' = "load"
  /\ pine_chunks' = <<>>
  /\ pine_prompt' = <<>>
  /\ pine_answer' = <<>>
  /\ pine_log' = <<>>
  /\ pine_error' = ""
  /\ UNCHANGED <<pine_index, pine_last, pine_prev>>
  /\ UNCHANGED notPine

\* lines 14-19: DirectoryLoader("docs/", glob="**/*.txt").load()
PineLoad ==
  /\ pine_pc = "load"
  /\ LET docs == DirectoryLoader(pine_dir, "txt") IN
       IF docs.err # ""
       THEN /\ PineRaise(docs.err)
            /\ UNCHANGED pine_docs
       ELSE /\ PineGoto("embeddings")
            /\ pine_docs' = docs.docs
  /\ UNCHANGED <<pine_index, pine_runs, pine_dir, pine_chunks, pine_prompt, pine_answer,
                 pine_log>>
  /\ UNCHANGED <<pine_last, pine_prev>>
  /\ UNCHANGED notPine

\* lines 26-33: HuggingFaceEmbeddings(...), then the text splitter
PineEmbedAndSplit(ok) ==
  /\ pine_pc = "embeddings"
  /\ PineCall("HuggingFaceEmbeddings", ok)
  /\ IF ok
     THEN /\ pine_chunks' = pine_split_documents(pine_docs, pine_chunk_size,
                                            pine_chunk_overlap)
          /\ PineGoto("list")
     ELSE /\ PineRaise("EmbeddingError")
          /\ UNCHANGED pine_chunks
  /\ UNCHANGED <<pine_index, pine_runs, pine_dir, pine_docs, pine_prompt, pine_answer>>
  /\ UNCHANGED <<pine_last, pine_prev>>
  /\ UNCHANGED notPine

\* the test of line 39 on the names pc.list_indexes() returned
MustCreate(names) == INDEX_NAME \notin names

\* lines 36-39: Pinecone(...), pc.list_indexes() and the membership test
PineListIndexes(ok) ==
  /\ pine_pc = "list"
  /\ PineCall("list_indexes", ok)
  /\ IF ok
     THEN PineGoto(IF MustCreate(DOMAIN pine_index) THEN "create" ELSE "index")
     ELSE PineRaise("StoreError")
  /\ UNCHANGED <<pine_index, pine_runs, pine_dir, pine_docs, pine_chunks, pine_prompt, pine_answer>>
  /\ UNCHANGED <<pine_last, pine_prev>>
  /\ UNCHANGED notPine

\* lines 40-48: pc.create_index(...)
PineCreateIndex(ok) ==
  /\ pine_pc = "create"
  /\ PineCall("create_index", ok /\ INDEX_NAME \notin DOMAIN pine_index)
  /\ IF ok /\ INDEX_NAME \notin DOMAIN pine_index
     THEN /\ pine_index' = [n \in DOMAIN pine_index \cup {INDEX_NAME} |->
                              IF n = INDEX_NAME THEN {} ELSE pine_index[n]]
          /\ PineGoto("index")
     ELSE /\ PineRaise("StoreError")
          /\ UNCHANGED pine_index
  /\ UNCHANGED <<pine_runs, pine_dir, pine_docs, pine_chunks, pine_prompt, pine_answer>>
  /\ UNCHANGED <<pine_last, pine_prev>>
  /\ UNCHANGED notPine

\* line 49: pc.Index(INDEX_NAME) resolves the index by name at the service
PineIndex(ok) ==
  /\ pine_pc = "index"
  /\ PineCall("Index", ok /\ INDEX_NAME \in DOMAIN pine_index)
  /\ IF ok /\ INDEX_NAME \in DOMAIN pine_index
     THEN PineGoto("upsert")
     ELSE PineRaise("StoreError")
  /\ UNCHANGED <<pine_index, pine_runs, pine_dir, pine_docs, pine_chunks, pine_prompt, pine_answer>>
  /\ UNCHANGED <<pine_last, pine_prev>>
  /\ UNCHANGED notPine

\* lines 51-55: PineconeVectorStore.from_documents looks the index up again,
\* embeds the chunks and upserts them, each under a fresh uuid4 (an empty
\* list of chunks writes nothing)
PineUpsert(ok) ==
  /\ pine_pc = "upsert"
  /\ PineCall("from_documents", ok)
  /\ IF ok
     THEN /\ pine_index' = [pine_index EXCEPT ![INDEX_NAME] =
                              @ \cup NewEntries(pine_runs, pine_chunks)]
          /\ PineGoto("retrieve")
          /\ pine_last' = Built(pine_dir, pine_index'[INDEX_NAME])
          /\ pine_prev' = pine_last
     ELSE /\ PineRaise("StoreError")
          /\ UNCHANGED <<pine_index, pine_last, pine_prev>>
  /\ UNCHANGED <<pine_runs, pine_dir, pine_docs, pine_chunks, pine_prompt, pine_answer>>
  /\ UNCHANGED notPine

\* line 91, first steps of the chain: the retriever and the prompt
PineRetrieve(ok) ==
  /\ pine_pc = "retrieve"
  /\ PineCall("similarity_search", ok)
  /\ IF ok
     THEN /\ \E ctx \in TopK(pine_index[INDEX_NAME], K) :
               pine_prompt' = PinePromptFormat([context |-> AsDocuments(ctx),
                                                question |-> pine_query])
          /\ PineGoto("generate")
     ELSE /\ PineRaise("RetrievalUnavailable")
          /\ UNCHANGED pine_prompt
  /\ UNCHANGED <<pine_index, pine_runs, pine_dir, pine_docs, pine_chunks, pine_answer>>
  /\ UNCHANGED <<pine_last, pine_prev>>
  /\ UNCHANGED notPine

\* line 91, rest of the chain, and the prints of lines 92-93
PineGenerate(ok, text) ==
  /\ pine_pc = "generate"
  /\ PineCall("llm", ok)
  /\ IF ok
     THEN /\ pine_answer' = text
          /\ PineGoto("done")
     ELSE /\ PineRaise("GenerationFailed")
          /\ UNCHANGED pine_answer
  /\ UNCHANGED <<pine_index, pine_runs, pine_dir, pine_docs, pine_chunks, pine_prompt>>
  /\ UNCHANGED <<pine_last, pine_prev>>
  /\ UNCHANGED notPine

PineStep ==
  \/ \E d \in Dirs : PineLaunch(d)
  \/ PineLoad
  \/ \E ok \in BOOLEAN : PineEmbedAndSplit(ok)
  \/ \E ok \in BOOLEAN : PineListIndexes(ok)
  \/ \E ok \in BOOLEAN : PineCreateIndex(ok)
  \/ \E ok \in BOOLEAN : PineIndex(ok)
  \/ \E ok \in BOOLEAN : PineUpsert(ok)
  \/ \E ok \in BOOLEAN : PineRetrieve(ok)
  \/ \E ok \in BOOLEAN, text \in Answers : PineGenerate(ok, text)

\* ------------------------------------------- load_documents called directly
LoadFiles == {FileA, FileB, FileC, FileD, FileE}
LoadUrls == {UrlA, UrlB, UrlC}

SeqsUpTo2(S) == {<<>>} \cup {<<x>> : x \in S} \cup {<<x, y>> : x \in S, y \in S}

LoadPathArgs ==
  { [given |-> FALSE, exists |-> FALSE, files |-> <<>>],
    [given |-> TRUE, exists |-> FALSE, files |-> <<>>] }
  \cup { [given |-> TRUE, exists |-> TRUE, files |-> d] : d \in SeqsUpTo2(LoadFiles) \cup Dirs }

LoadUrlArgs ==
  { NoUrls } \cup { [given |-> TRUE, list |-> l] : l \in SeqsUpTo2(LoadUrls) }
  \cup UrlArgs

LoadIdle ==
  /\ load_pc = "done"
  /\ load_in = [path |-> NoPath, urls |-> NoUrls]
  /\ load_out = load_documents(NoPath, NoUrls)

LoadInit ==
  /\ load_pc = "call"
  /\ load_in \in [path : LoadPathArgs, urls : LoadUrlArgs]
  /\ load_out = [err |-> "", docs |-> <<>>]

CallLoadDocuments ==
  /\ load_pc = "call"
  /\ load_out' = load_documents(load_in.path, load_in.urls)
  /\ load_pc' = "done"
  /\ UNCHANGED load_in
  /\ UNCHANGED notLoad

\* ------------------------------------------------ webScrapper_chatbot.py
\* Message text is a sequence of tokens: the words the cleaning step looks
\* for, white space, and other words.  The code fence of three backquotes is
\* written with three apostrophes here.
\* json.dumps(json.loads(tok), indent=2)
JsonDumps(tok) ==
  CASE tok = "[1]" -> "[\n  1\n]"
    [] OTHER -> tok

\* json.loads accepts the text
IsJson(text) == Len(text) = 1 /\ text[1] \in {"[1]", "{}"}

Remove(text, tok) == SelectSeq(text, LAMBDA t : t # tok)

\* text.split(tok)[0]
RECURSIVE Before(_, _)
Before(text, tok) ==
  IF text = <<>> \/ Head(text) = tok THEN <<>> ELSE <<Head(text)>> \o Before(Tail(text), tok)

\* lines 246-252
Clean(text) ==
  Strip(Before(Before(Remove(Remove(text, "'''json"), "'''"), "signature"), "safetyRatings"))

\* lines 236-243: the text of a message content
RECURSIVE PartsText(_)
PartsText(parts) ==
  IF parts = <<>> THEN <<>>
  ELSE (IF Head(parts).type = "text" THEN Head(parts).text ELSE <<>>) \o PartsText(Tail(parts))

ContentText(content) ==
  IF content.shape = "list" THEN PartsText(content.parts) ELSE content.text

\* lines 254-259
FinalAnswer(text) == IF IsJson(text) THEN <<JsonDumps(text[1])>> ELSE text

StrContent(text) == [shape |-> "str", text |-> text, parts |-> <<>>]
ListContent(parts) == [shape |-> "list", text |-> <<>>, parts |-> parts]

ToolCallChunk == [node |-> "model", function_call |-> TRUE, content |-> StrContent(<<>>)]
ToolsChunk == [node |-> "tools", function_call |-> FALSE, content |-> StrContent(<<"[]">>)]
OtherChunk == [node |-> "other", function_call |-> FALSE, content |-> StrContent(<<>>)]
TextChunk(content) == [node |-> "model", function_call |-> FALSE, content |-> content]

Streams ==
  { <<>>,
    << ToolCallChunk, ToolsChunk, TextChunk(StrContent(<<"[1]">>)) >>,
    << TextChunk(StrContent(<<" ">>)),
       TextChunk(ListContent(<< [type |-> "text", text |-> <<"hi">>],
                                [type |-> "image", text |-> <<"x">>] >>)),
       ToolsChunk >>,
    << OtherChunk, TextChunk(StrContent(<<"'''json", "{}", "'''">>)) >>,
    << TextChunk(StrContent(<<"signature", "hi">>)), ToolCallChunk, ToolsChunk >>,
    << ToolsChunk, TextChunk(StrContent(<<"hi", " ">>)), ToolCallChunk,
       TextChunk(StrContent(<<"[1]">>)) >> }

None == [set |-> FALSE, text |-> <<>>]

CliInit ==
  /\ cli_pc = "input"
  /\ cli_query = <<>>
  /\ cli_stream = <<>>
  /\ cli_pos = 0
  /\ cli_final = None
  /\ cli_trace = <<>>
  /\ cli_asked = 0

\* lines 209-218: input(), the exit test, and the call of agent.stream
CliReadLine(line, st) ==
  /\ cli_pc = "input"
  /\ cli_query' = line
  /\ IF IsExit(line)
     THEN /\ cli_trace' = <<"Goodbye">>
          /\ cli_pc' = "closed"
          /\ UNCHANGED <<cli_stream, cli_pos, cli_final, cli_asked>>
     ELSE /\ cli_asked < MaxQuestions
          /\ cli_asked' = cli_asked + 1
          /\ cli_final' = None
          /\ cli_trace' = <<"Reasoning Trace">>
          /\ cli_stream' = st
          /\ cli_pos' = 0
          /\ cli_pc' = "stream"
  /\ UNCHANGED notCli

\* variant: the for loop goes on after a final answer was printed
CliConsume_nobreak ==
  /\ cli_pc = "stream"
  /\ cli_pos < Len(cli_stream)
  /\ cli_pos' = cli_pos + 1
  /\ LET chunk == cli_stream[cli_pos + 1] IN
       IF chunk.node = "model"
       THEN IF chunk.function_call
            THEN /\ cli_trace' = Append(cli_trace, "Action")
                 /\ UNCHANGED <<cli_final, cli_pc>>
            ELSE LET final == FinalAnswer(Clean(ContentText(chunk.content))) IN
                 /\ cli_final' = [set |-> TRUE, text |-> final]
                 /\ IF Strip(final) # <<>>
                    THEN /\ cli_trace' = Append(cli_trace, "Final Answer")
                         /\ UNCHANGED cli_pc
                    ELSE UNCHANGED <<cli_trace, cli_pc>>
       ELSE IF chunk.node = "tools"
       THEN /\ cli_trace' = Append(cli_trace, "Observation")
            /\ UNCHANGED <<cli_final, cli_pc>>
       ELSE UNCHANGED <<cli_final, cli_trace, cli_pc>>
  /\ UNCHANGED <<cli_query, cli_stream, cli_asked>>
  /\ UNCHANGED notCli

\* lines 218-272: one update of the stream
CliConsume ==
  /\ cli_pc = "stream"
  /\ cli_pos < Len(cli_stream)
  /\ cli_pos' = cli_pos + 1
  /\ LET chunk == cli_stream[cli_pos + 1] IN
       IF chunk.node = "model"
       THEN IF chunk.function_call
            THEN /\ cli_trace' = Append(cli_trace, "Action")
                 /\ UNCHANGED <<cli_final, cli_pc>>
            ELSE LET final == FinalAnswer(Clean(ContentText(chunk.content))) IN
                 /\ cli_final' = [set |-> TRUE, text |-> final]
                 /\ IF Strip(final) # <<>>
                    THEN /\ cli_trace' = Append(cli_trace, "Final Answer")
                         /\ cli_pc' = "input"
                    ELSE UNCHANGED <<cli_trace, cli_pc>>
       ELSE IF chunk.node = "tools"
       THEN /\ cli_trace' = Append(cli_trace, "Observation")
            /\ UNCHANGED <<cli_final, cli_pc>>
       ELSE UNCHANGED <<cli_final, cli_trace, cli_pc>>
  /\ UNCHANGED <<cli_query, cli_stream, cli_asked>>
  /\ UNCHANGED notCli

\* the stream is exhausted: back to line 209
CliStreamEnd ==
  /\ cli_pc = "stream"
  /\ cli_pos = Len(cli_stream)
  /\ cli_pc' = "input"
  /\ UNCHANGED <<cli_query, cli_stream, cli_pos, cli_final, cli_trace, cli_asked>>
  /\ UNCHANGED notCli

\* the agent raises while the stream is read (model or tool failure)
CliStreamRaises ==
  /\ cli_pc = "stream"
  /\ cli_pos < Len(cli_stream)
  /\ cli_pc' = "crashed"
  /\ UNCHANGED <<cli_query, cli_stream, cli_pos, cli_final, cli_trace, cli_asked>>
  /\ UNCHANGED notCli

\* one step of the loop, its inputs drawn from the given sets
CliStep(lines, streams) ==
  \/ \E line \in lines, st \in streams : CliReadLine(line, st)
  \/ CliConsume
  \/ CliStreamEnd
  \/ CliStreamRaises

\* ------------------------------ webScrapper_chatbot.py: TMDb and the tools
\* (ReAct_Webscrapper_Streamlit.py holds the same helper functions)
OverviewCut == 180
NowPlayingCut == 10
TheaterLimit == 15
LikelyCut == 8

\* movies as TMDb describes them; overview is {} when null
MovieUp == [title |-> <<"U", "p">>, release_date |-> "2009", overview |-> {<<"o", "k">>}]
MovieLong == [title |-> <<"u", "p", "s">>, release_date |-> "2024",
              overview |-> {[i \in 1..(OverviewCut + 1) |-> "x"]}]
MovieNull == [title |-> <<"I", "t">>, release_date |-> "2017", overview |-> {}]

\* outcomes of requests.get on themoviedb.org: a 200 response with its JSON
\* body, a response with another status, or an exception of requests
TmdbOk(results, total) == [kind |-> "ok", results |-> results, total_pages |-> total]
TmdbHttpError == [kind |-> "http_error", results |-> <<>>, total_pages |-> {}]
TmdbException == [kind |-> "exception", results |-> <<>>, total_pages |-> {}]

TmdbResponses ==
  { TmdbHttpError, TmdbException }
  \cup { TmdbOk(r, t) : r \in { <<>>, <<MovieUp>>, <<MovieNull, MovieLong>> },
                        t \in { {}, {1}, {2}, {3} } }

\* data.get("total_pages", 1)
TotalPages(data) == IF data.total_pages = {} THEN 1 ELSE CHOOSE n \in data.total_pages : TRUE

\* json.dumps of a list, of a {"message": ...} object, of an {"error": ...}
\* object and of any other object
JsonList(items) == [json |-> "list", items |-> items]
JsonMessage(text) == [json |-> "object", key |-> "message", text |-> text]
JsonError(text) == [json |-> "object", key |-> "error", text |-> text]
JsonObject(fields) == [json |-> "object", key |-> "fields", fields |-> fields]
Raised(e) == [json |-> "none", raised |-> e]

Take(s, n) == SubSeq(s, 1, Min(n, Len(s)))

\* lines 155-158: the first movie whose title contains movie_title
RECURSIVE FirstMatch(_, _)
FirstMatch(movie_title, now_playing) ==
  IF now_playing = <<>> THEN {}
  ELSE IF Contains(Lower(Head(now_playing).title), Lower(movie_title))
       THEN {Head(now_playing)}
       ELSE FirstMatch(movie_title, Tail(now_playing))

\* outcomes of the Nominatim request and of the Overpass request
GeoOutcomes == {"exception", "empty", "malformed", "ok"}
Element(n) == [tags |-> IF n % 2 = 0 THEN {} ELSE {n}]
OverpassOk(n) == [kind |-> "ok", elements |-> {[i \in 1..n |-> Element(i)]}]
OverpassNoKey == [kind |-> "ok", elements |-> {}]
OverpassException == [kind |-> "exception", elements |-> {}]
OverpassOutcomes ==
  { OverpassException, OverpassNoKey, OverpassOk(0), OverpassOk(1), OverpassOk(LikelyCut + 1),
    OverpassOk(TheaterLimit + 1) }

\* tags.get("name", "Unnamed Cinema")
TheaterName(el) == IF el.tags = {} THEN "Unnamed Cinema" ELSE "Cinema"

\* lines 69-119
get_theaters_open(city, limit, geo, over) ==
  IF geo = "exception" \/ geo = "malformed" THEN [kind |-> "error", text |-> "exception", theaters |-> <<>>]
  ELSE IF geo = "empty" THEN [kind |-> "error", text |-> "Could not geocode city", theaters |-> <<>>]
  ELSE IF over.kind = "exception" THEN [kind |-> "error", text |-> "exception", theaters |-> <<>>]
  ELSE IF over.elements = {} \/ over.elements = {<<>>}
       THEN [kind |-> "message", text |-> "No theaters found near", theaters |-> <<>>]
  ELSE LET els == Take(CHOOSE e \in over.elements : TRUE, limit)
       IN  [kind |-> "result", text |-> city,
            theaters |-> [i \in 1..Len(els) |-> [name |-> TheaterName(els[i])]]]

\* what the Overpass request gave: an exception, a body without "elements",
\* an empty list of elements, or elements
OverKind(over) ==
  IF over.kind = "exception" THEN "exception"
  ELSE IF over.elements = {} THEN "no_key"
  ELSE IF over.elements = {<<>>} THEN "empty"
  ELSE "elements"

\* the record of one call of get_theaters_open: the outcomes of its two
\* requests, the kind of mapping it returned and the theaters in it
LookupEntry(geo, over, found) ==
  [call |-> "theaters", page |-> 0, kind |-> found.kind, geo |-> geo,
   over |-> OverKind(over), count |-> Len(found.theaters)]

\* json.dumps(get_theaters_open(city), indent=2)
TheatersJson(t) ==
  IF t.kind = "error" THEN JsonError(t.text)
  ELSE IF t.kind = "message" THEN JsonMessage(t.text)
  ELSE JsonObject([city |-> t.text, source |-> "OpenStreetMap", theaters |-> t.theaters])

\* lines 166-177, for the movie found at lines 155-158
find_movie_result(movie, city, theaters_data) ==
  LET theaters == IF theaters_data.kind = "result" THEN theaters_data.theaters ELSE <<>>
      names == [i \in 1..Min(LikelyCut, Len(theaters)) |-> theaters[i].name]
  IN  IF movie.overview = {} THEN Raised("TypeError")
      ELSE JsonObject([movie |-> movie.title, release_date |-> movie.release_date,
                       overview |-> Take(CHOOSE o \in movie.overview : TRUE, OverviewCut)
                                    \o <<".", ".", ".">>,
                       city |-> city,
                       likely_theaters |-> IF theaters # <<>> THEN [list |-> names]
                                           ELSE [list |-> <<"No data found">>]])

\* lines 56-64
search_movie_tmdb(title, resp) ==
  IF resp.kind = "exception" THEN Raised("RequestException")
  ELSE IF resp.kind # "ok" THEN JsonError("Failed to fetch TMDb data")
  ELSE IF resp.results # <<>> THEN JsonObject(Head(resp.results))
  ELSE JsonMessage("No results found")

Titles == { <<"u", "p">>, <<"i", "t">>, <<"z">> }
Cities == { "Pune" }
ToolNames == { "get_now_playing", "search_movie", "get_theaters", "find_movie_in_city" }

ToolInit ==
  /\ tool_pc = "idle"
  /\ tool_name = ""
  /\ tool_args = [title |-> <<>>, city |-> ""]
  /\ tool_page = 0
  /\ tool_results = <<>>
  /\ tool_movie = {}
  /\ tool_log = <<>>
  /\ tool_out = Raised("")

\* the agent calls get_now_playing or find_movie_in_city: line 31 is reached
ToolCall(name, title, city) ==
  /\ tool_pc \in {"idle", "done"}
  /\ name \in {"get_now_playing", "find_movie_in_city"}
  /\ tool_name' = name
  /\ tool_args' = [title |-> title, city |-> city]
  /\ tool_page' = 1
  /\ tool_results' = <<>>
  /\ tool_movie' = {}
  /\ tool_log' = <<>>
  /\ tool_out' = Raised("")
  /\ tool_pc' = "fetch"
  /\ UNCHANGED notTool

\* what follows the loop of get_now_playing_tmdb in the calling tool:
\* line 130 for get_now_playing, lines 154-163 for find_movie_in_city
AfterNowPlaying(now_playing) ==
  IF tool_name = "get_now_playing"
  THEN /\ tool_out' = JsonList(Take(now_playing, NowPlayingCut))
       /\ tool_pc' = "done"
       /\ UNCHANGED tool_movie
  ELSE LET movie == FirstMatch(tool_args.title, now_playing) IN
       IF movie = {}
       THEN /\ tool_out' = JsonMessage("is not currently showing in India or not found.")
            /\ tool_pc' = "done"
            /\ UNCHANGED tool_movie
       ELSE /\ tool_movie' = movie
            /\ tool_pc' = "theaters"
            /\ UNCHANGED tool_out

\* lines 31-54: one turn of the for loop, with the response of requests.get
NowPlayingPage(resp) ==
  /\ tool_pc = "fetch"
  /\ tool_log' = Append(tool_log, [call |-> "now_playing", page |-> tool_page,
                                   kind |-> resp.kind])
  /\ IF resp.kind = "exception"
     THEN /\ tool_out' = Raised("RequestException")
          /\ tool_pc' = "done"
          /\ UNCHANGED <<tool_page, tool_results, tool_movie>>
     ELSE IF resp.kind # "ok"
     THEN /\ AfterNowPlaying(tool_results)
          /\ UNCHANGED <<tool_page, tool_results>>
     ELSE /\ tool_results' = tool_results \o resp.results
          /\ IF tool_page >= TotalPages(resp) \/ tool_page = 2
             THEN /\ AfterNowPlaying(tool_results')
                  /\ UNCHANGED tool_page
             ELSE /\ tool_page' = tool_page + 1
                  /\ UNCHANGED <<tool_pc, tool_out, tool_movie>>
  /\ UNCHANGED <<tool_name, tool_args>>
  /\ UNCHANGED notTool

\* lines 166-177: the theater lookup of find_movie_in_city and its result
TheatersLookup(geo, over) ==
  /\ tool_pc = "theaters"
  /\ tool_log' = Append(tool_log,
                        LookupEntry(geo, over, get_theaters_open(tool_args.city, TheaterLimit,
                                                                 geo, over)))
  /\ tool_out' = find_movie_result(CHOOSE m \in tool_movie : TRUE, tool_args.city,
                                   get_theaters_open(tool_args.city, TheaterLimit, geo, over))
  /\ tool_pc' = "done"
  /\ UNCHANGED <<tool_name, tool_args, tool_page, tool_results, tool_movie>>
  /\ UNCHANGED notTool

\* lines 132-135: the tool search_movie
SearchMovie(title, resp) ==
  /\ tool_pc \in {"idle", "done"}
  /\ tool_name' = "search_movie"
  /\ tool_args' = [title |-> title, city |-> ""]
  /\ tool_log' = <<[call |-> "search", page |-> 0, kind |-> resp.kind]>>
  /\ tool_out' = search_movie_tmdb(title, resp)
  /\ tool_pc' = "done"
  /\ tool_page' = 0
  /\ tool_results' = <<>>
  /\ tool_movie' = {}
  /\ UNCHANGED notTool

\* lines 137-144: the tool get_theaters
GetTheaters(city, geo, over) ==
  /\ tool_pc \in {"idle", "done"}
  /\ tool_name' = "get_theaters"
  /\ tool_args' = [title |-> <<>>, city |-> city]
  /\ tool_log' = <<LookupEntry(geo, over, get_theaters_open(city, TheaterLimit, geo, over))>>
  /\ tool_out' = TheatersJson(get_theaters_open(city, TheaterLimit, geo, over))
  /\ tool_pc' = "done"
  /\ tool_page' = 0
  /\ tool_results' = <<>>
  /\ tool_movie' = {}
  /\ UNCHANGED notTool

ToolStep ==
  \/ \E name \in ToolNames, title \in Titles, city \in Cities : ToolCall(name, title, city)
  \/ \E resp \in TmdbResponses : NowPlayingPage(resp)
  \/ \E geo \in GeoOutcomes, over \in OverpassOutcomes : TheatersLookup(geo, over)
  \/ \E title \in Titles, resp \in TmdbResponses : SearchMovie(title, resp)
  \/ \E city \in Cities, geo \in GeoOutcomes, over \in OverpassOutcomes :
       GetTheaters(city, geo, over)

\* ------------------------------------- prompt templates called directly
FnIdle ==
  /\ fn_pc = "idle"
  /\ fn_in = [fn |-> "none"]
  /\ fn_out = [fn |-> "none"]

PromptDocs == { [page_content |-> <<"h", "i">>, source |-> "a.txt"],
                [page_content |-> <<>>, source |-> "http://c"] }

\* what the retriever may hand to the template: up to K documents
ContextArgs ==
  SeqsUpTo2(PromptDocs)
  \cup { [i \in 1..K |-> [page_content |-> <<"h", "i">>, source |-> "a.txt"]] }

MemoryArgs == { <<>>, <<HumanMessage(<<"h", "i">>), AIMessage(<<"o", "k">>)>> }

PromptInit ==
  /\ fn_pc = "call"
  /\ fn_in \in [fn : {"prompt"}, context : ContextArgs, question : Lines,
                messages : MemoryArgs]
  /\ fn_out = [fn |-> "none"]

\* langchainRAG.py lines 103-113 and langchain(pinecone).py lines 83-85: the
\* first chain step and the template, on the same context and question
RenderPrompts ==
  /\ fn_pc = "call"
  /\ fn_in.fn = "prompt"
  /\ fn_out' = [fn |-> "prompt",
                rag |-> PromptFormat(ChainInput([question |-> fn_in.question],
                                                fn_in.context, fn_in.messages)),
                pine |-> PinePromptFormat([context |-> fn_in.context,
                                           question |-> fn_in.question])]
  /\ fn_pc' = "done"
  /\ UNCHANGED fn_in
  /\ UNCHANGED notFn

\* ------------------------------------------ the chunkers called directly
MaxTextLen == 4
MaxSize == 5

Alphabet == {"a", " ", "\n", "."}

Texts == UNION { [1..n -> Alphabet] : n \in 0..MaxTextLen }

PageTexts(docs) == [i \in 1..Len(docs) |-> docs[i].page_content]

SplitInit ==
  /\ fn_pc = "call"
  /\ fn_in \in { [fn |-> "split", text |-> t, size |-> n, overlap |-> o] :
                 t \in Texts, n \in 1..MaxSize, o \in 0..(MaxSize - 1) }
  /\ fn_in.overlap < fn_in.size
  /\ fn_out = [fn |-> "none"]

\* langchainRAG.py lines 37-43 and langchain(pinecone).py lines 29-33, on
\* one document
CallSplitDocuments ==
  /\ fn_pc = "call"
  /\ fn_in.fn = "split"
  /\ LET document == [page_content |-> fn_in.text, source |-> "a.txt"] IN
       fn_out' = [fn |-> "split",
                  rag |-> PageTexts(split_documents(<<document>>, fn_in.size,
                                                    fn_in.overlap)),
                  pine |-> PageTexts(pine_split_documents(<<document>>, fn_in.size,
                                                          fn_in.overlap))]
  /\ fn_pc' = "done"
  /\ UNCHANGED fn_in
  /\ UNCHANGED notFn

\* ------------------------------------------------------------- tmdb.py
MaxPages == 3

TMDB_API_KEY == "6391415fc15934ab1bd4304bf9249d85"
GoogleLimit == 20

\* responses of TMDb to the script: as above, with total_pages up to one
\* more than the pages the model follows
TmdbScriptResponses ==
  { TmdbHttpError, TmdbException }
  \cup { TmdbOk(r, t) : r \in { <<>>, <<MovieUp>>, <<MovieNull, MovieLong>> },
                        t \in { {} } \cup { {n} : n \in 1..(MaxPages + 1) } }

\* responses of Google Places Text Search: results are places
Place(i) == [name |-> i]
GoogleOk(n) == [kind |-> "ok", results |-> [i \in 1..n |-> Place(i)]]
GoogleResponses ==
  { [kind |-> "http_error", results |-> <<>>], [kind |-> "exception", results |-> <<>>],
    GoogleOk(0), GoogleOk(1), GoogleOk(GoogleLimit + 1) }

Pending == [state |-> "none", value |-> <<>>]
Returned(v) == [state |-> "returned", value |-> v]
Raises(e) == [state |-> "raised", value |-> e]
Exits(code) == [state |-> "exit", value |-> code]

TmdbInit ==
  /\ tmdb_pc = "idle"
  /\ tmdb_caller = ""
  /\ tmdb_key = ""
  /\ tmdb_google = ""
  /\ tmdb_page = 0
  /\ tmdb_results = <<>>
  /\ tmdb_requests = <<>>
  /\ tmdb_movies = Pending
  /\ tmdb_main = Pending
  /\ tmdb_printed = <<>>

\* tmdb.py lines 59-85, with the response of requests.get
get_theaters_google(city, api_key, limit, resp) ==
  IF api_key = "" THEN Raises("ValueError")
  ELSE IF resp.kind = "exception" THEN Raises("RequestException")
  ELSE IF resp.kind # "ok" THEN Raises("RuntimeError")
  ELSE Returned(Take(resp.results, limit))

\* lines 110-119 of main(), or a call of get_now_playing_tmdb(api_key) alone:
\* lines 24-29
TmdbStart(caller, key, google) ==
  /\ tmdb_pc \in {"idle", "done"}
  /\ caller = "main" => key = TMDB_API_KEY
  /\ tmdb_caller' = caller
  /\ tmdb_key' = key
  /\ tmdb_google' = google
  /\ tmdb_results' = <<>>
  /\ tmdb_requests' = <<>>
  /\ tmdb_main' = Pending
  /\ IF key = ""
     THEN /\ tmdb_movies' = Raises("ValueError")
          /\ tmdb_page' = 0
          /\ tmdb_pc' = "done"
          /\ tmdb_printed' = <<>>
     ELSE /\ tmdb_movies' = Pending
          /\ tmdb_page' = 1
          /\ tmdb_pc' = "fetch"
          /\ tmdb_printed' = IF caller = "main" THEN <<"Fetching now-playing movies">>
                             ELSE <<>>
  /\ UNCHANGED notTmdb

\* get_now_playing_tmdb ended with outcome: nothing more for a direct call;
\* in main(), lines 120-141 up to the theater lookup
AfterMovies(outcome) ==
  /\ tmdb_movies' = outcome
  /\ IF tmdb_caller = "direct"
     THEN /\ tmdb_pc' = "done"
          /\ UNCHANGED <<tmdb_main, tmdb_printed>>
     ELSE IF outcome.state = "raised"
     THEN /\ tmdb_printed' = Append(tmdb_printed, "Failed to fetch TMDb data")
          /\ tmdb_main' = Exits(1)
          /\ tmdb_pc' = "done"
     ELSE LET listed == Append(tmdb_printed,
                               IF outcome.value = <<>> THEN "No movies found."
                               ELSE "Found movies now playing") IN
          IF tmdb_google # ""
          THEN /\ tmdb_printed' = Append(listed, "Fetching theaters")
               /\ tmdb_pc' = "theaters"
               /\ UNCHANGED tmdb_main
          ELSE /\ tmdb_printed' = Append(listed, "skipping theater lookup")
               /\ tmdb_main' = Returned([movies |-> outcome.value, theaters |-> <<>>])
               /\ tmdb_pc' = "done"

\* the record of one request: the page asked for and what came back
Request(page, resp) ==
  [page |-> page, kind |-> resp.kind, total |-> TotalPages(resp), results |-> resp.results]

\* variant: a response other than 200 ends the loop and the movies read so
\* far are returned
TmdbPage_break(resp) ==
  /\ tmdb_pc = "fetch"
  /\ tmdb_requests' = Append(tmdb_requests, Request(tmdb_page, resp))
  /\ IF resp.kind = "exception"
     THEN /\ AfterMovies(Raises("RequestException"))
          /\ UNCHANGED <<tmdb_page, tmdb_results>>
     ELSE IF resp.kind # "ok"
     THEN /\ AfterMovies(Returned(tmdb_results))
          /\ UNCHANGED <<tmdb_page, tmdb_results>>
     ELSE /\ tmdb_results' = tmdb_results \o resp.results
          /\ IF tmdb_page >= TotalPages(resp)
             THEN /\ AfterMovies(Returned(tmdb_results'))
                  /\ UNCHANGED tmdb_page
             ELSE /\ tmdb_page < MaxPages
                  /\ tmdb_page' = tmdb_page + 1
                  /\ UNCHANGED <<tmdb_pc, tmdb_movies, tmdb_main, tmdb_printed>>
  /\ UNCHANGED <<tmdb_caller, tmdb_key, tmdb_google>>
  /\ UNCHANGED notTmdb

\* tmdb.py lines 30-56: one turn of the while loop, with the response of
\* requests.get
TmdbPage(resp) ==
  /\ tmdb_pc = "fetch"
  /\ tmdb_requests' = Append(tmdb_requests, Request(tmdb_page, resp))
  /\ IF resp.kind = "exception"
     THEN /\ AfterMovies(Raises("RequestException"))
          /\ UNCHANGED <<tmdb_page, tmdb_results>>
     ELSE IF resp.kind # "ok"
     THEN /\ AfterMovies(Raises("RuntimeError"))
          /\ UNCHANGED <<tmdb_page, tmdb_results>>
     ELSE /\ tmdb_results' = tmdb_results \o resp.results
          /\ IF tmdb_page >= TotalPages(resp)
             THEN /\ AfterMovies(Returned(tmdb_results'))
                  /\ UNCHANGED tmdb_page
             ELSE /\ tmdb_page < MaxPages
                  /\ tmdb_page' = tmdb_page + 1
                  /\ UNCHANGED <<tmdb_pc, tmdb_movies, tmdb_main, tmdb_printed>>
  /\ UNCHANGED <<tmdb_caller, tmdb_key, tmdb_google>>
  /\ UNCHANGED notTmdb

\* tmdb.py lines 127-141: the theater lookup of main() and its return
TmdbTheaters(resp) ==
  /\ tmdb_pc = "theaters"
  /\ LET found == get_theaters_google("Pune", tmdb_google, GoogleLimit, resp) IN
       IF found.state = "returned"
       THEN /\ tmdb_printed' = Append(tmdb_printed,
                                      IF found.value = <<>> THEN "No theaters found."
                                      ELSE "Found theaters")
            /\ tmdb_main' = Returned([movies |-> tmdb_movies.value,
                                      theaters |-> found.value])
       ELSE /\ tmdb_printed' = Append(tmdb_printed, "Failed to fetch Google Places data")
            /\ tmdb_main' = Raises("UnboundLocalError")
  /\ tmdb_pc' = "done"
  /\ UNCHANGED <<tmdb_caller, tmdb_key, tmdb_google, tmdb_page, tmdb_results,
                 tmdb_requests, tmdb_movies>>
  /\ UNCHANGED notTmdb

TmdbKeys == { "", TMDB_API_KEY }
GoogleKeys == { "", "g" }

TmdbStep ==
  \/ \E caller \in {"main", "direct"}, key \in TmdbKeys, google \in GoogleKeys :
       TmdbStart(caller, key, google)
  \/ \E resp \in TmdbScriptResponses : TmdbPage(resp)
  \/ \E resp \in GoogleResponses : TmdbTheaters(resp)

\* ---------------------------------------------------------- specifications
Init == RagInit /\ PineInit /\ LoadIdle /\ CliInit /\ ToolInit /\ FnIdle /\ TmdbInit

\* langchainRAG.py, one session at a time: the script as written, run again
\* after it ended
Next == Step(1, PathArgs, Lines, Answers)

Spec == Init /\ [][Next]_vars

\* two sessions of langchainRAG.py against the same Chroma database
SharedPaths == { [given |-> TRUE, exists |-> TRUE, files |-> <<FileA>>],
                 [given |-> TRUE, exists |-> TRUE, files |-> <<FileD, FileB>>] }
SharedLines == { Exit, <<"h", "i">> }
SharedAnswers == { <<"o", "k">> }

NextShared == \E p \in Sessions : Step(p, SharedPaths, SharedLines, SharedAnswers)

SpecShared == Init /\ [][NextShared]_vars

\* langchain(pinecone).py, run again after it ended
NextPinecone == PineStep

SpecPinecone == Init /\ [][NextPinecone]_vars

\* load_documents on arbitrary arguments
InitLoad == RagInit /\ PineInit /\ LoadInit /\ CliInit /\ ToolInit /\ FnIdle /\ TmdbInit

NextLoad == CallLoadDocuments

SpecLoad == InitLoad /\ [][NextLoad]_vars

\* the two interactive loops: langchainRAG.py and webScrapper_chatbot.py
LoopPaths == { [given |-> TRUE, exists |-> TRUE, files |-> <<FileA>>] }

LoopStreams ==
  { <<>>, << TextChunk(StrContent(<<" ">>)), ToolCallChunk, ToolsChunk,
             TextChunk(StrContent(<<"hi">>)), ToolsChunk >> }

NextLoops ==
  \/ Step(1, LoopPaths, Lines, SharedAnswers)
  \/ CliStep(Lines, LoopStreams)

\* webScrapper_chatbot.py alone
NextCli == CliStep(Lines, Streams)

SpecCli == Init /\ [][NextCli]_vars

SpecLoops == Init /\ [][NextLoops]_vars

\* the two prompt templates on arbitrary contexts and questions
InitPrompt == RagInit /\ PineInit /\ LoadIdle /\ CliInit /\ ToolInit /\ PromptInit /\ TmdbInit

NextPrompt == RenderPrompts

SpecPrompt == InitPrompt /\ [][NextPrompt]_vars

\* the two chunkers on arbitrary documents, sizes and overlaps
InitSplit == RagInit /\ PineInit /\ LoadIdle /\ CliInit /\ ToolInit /\ SplitInit /\ TmdbInit

NextSplit == CallSplitDocuments

SpecSplit == InitSplit /\ [][NextSplit]_vars

\* tmdb.py: main(), or get_now_playing_tmdb called alone
NextTmdb == TmdbStep

SpecTmdb == Init /\ [][NextTmdb]_vars

\* the tools of webScrapper_chatbot.py, called by the agent one at a time
NextTools == ToolStep

SpecTools == Init /\ [][NextTools]_vars

\* ------------------------------------------------------------- properties
RECURSIVE Interleave(_)
Interleave(qa) ==
  IF qa = <<>> THEN <<>>
  ELSE <<HumanMessage(Head(qa)[1]), AIMessage(Head(qa)[2])>> \o Interleave(Tail(qa))

Count(l, name) == Cardinality({i \in 1..Len(l) : l[i].call = name})

Last(l) == l[Len(l)]

BuildDone(p) == pc[p] \in {"chain", "input", "retrieve", "generate", "append", "closed"}

\* C1: whenever the session waits for input (or was closed by the user), its
\* memory is exactly the questions whose generation succeeded, each followed
\* by its answer, in the order they were asked: 2N turns, human/ai alternating.
MemoryOrdering ==
  \A p \in Sessions :
    pc[p] \in {"input", "closed"} =>
      /\ Len(chat_history[p]) = 2 * Len(answered[p])
      /\ chat_history[p] = Interleave(answered[p])
      /\ \A i \in 1..Len(chat_history[p]) :
           chat_history[p][i].role = (IF i % 2 = 1 THEN "human" ELSE "ai")

MemoryOrderingWitness ==
  /\ pc[1] = "input"
  /\ Len(answered[1]) = 2
  /\ Len(chat_history[1]) = 4
  /\ answered[1][1] # answered[1][2]

\* C2 (as claimed): a failed model call leaves the memory as it was and puts
\* the session back at the input prompt.
GenerationFailureIsolated ==
  [][\A p \in Sessions :
       (pc[p] = "generate" /\ log'[p] # log[p] /\ ~Last(log'[p]).ok)
         => (chat_history'[p] = chat_history[p] /\ pc'[p] = "input")]_vars

\* the texts a prompt carries besides the template's own words
PromptTexts(pr) ==
  LET segs == SelectSeq(pr, LAMBDA g : g.kind # "lit")
  IN  [i \in 1..Len(segs) |-> segs[i].text]

RECURSIVE IsSubseq(_, _)
IsSubseq(a, b) ==
  IF a = <<>> THEN TRUE
  ELSE IF b = <<>> THEN FALSE
  ELSE IF Head(a) = Head(b) THEN IsSubseq(Tail(a), Tail(b))
  ELSE IsSubseq(a, Tail(b))

MemoryTexts(messages) == [i \in 1..Len(messages) |-> messages[i].content]

\* C3 (as claimed): the prompt assembled for a question carries every earlier
\* turn of the memory, verbatim and in order.
PromptCarriesMemory ==
  \A p \in Sessions :
    pc[p] = "generate" => IsSubseq(MemoryTexts(chat_history[p]), PromptTexts(prompt[p]))

\* C4: in a build, nothing is in the collection when the new chunks are about
\* to be inserted, and after the build the collection holds exactly the
\* entries of that build.
DeleteBeforeRebuild ==
  \A p \in Sessions :
    /\ pc[p] = "upsert" =>
         collection_name \in DOMAIN store /\ store[collection_name].entries = {}
    /\ BuildDone(p) =>
         /\ collection_name \in DOMAIN store
         /\ store[collection_name].entries = NewEntries(run[p], chunks[p])
         /\ \A e \in store[collection_name].entries : e.id[1] = run[p]

DeleteBeforeRebuildWitness ==
  /\ BuildDone(1)
  /\ \E i \in 1..Len(log[1]) : log[1][i].call = "delete_collection" /\ log[1][i].ok
  /\ store[collection_name].entries # {}
  /\ run[1] > 1

UsablePath(a) == a.given /\ a.exists

\* C6: a build whose path is missing or does not exist ends with ValueError
\* before any external call is reached.
ConfigErrorBeforeNetwork ==
  \A p \in Sessions :
    (pc[p] \notin {"idle", "load"} /\ ~UsablePath(path[p])) =>
      /\ pc[p] = "crashed"
      /\ error[p] = "ValueError"
      /\ log[p] = <<>>
      /\ chunks[p] = <<>>

ConfigErrorBeforeNetworkWitness ==
  /\ pc[1] = "crashed"
  /\ error[1] = "ValueError"
  /\ run[1] > 1
  /\ collection_name \in DOMAIN store
  /\ store[collection_name].entries # {}

\* C8: once a similarity search has failed, the script has ended with that
\* failure: no model call follows the failed search, and the memory still
\* holds exactly the turns of the earlier questions.
RetrievalFailureSurfaced ==
  \A p \in Sessions :
    (\E i \in 1..Len(log[p]) : log[p][i].call = "similarity_search" /\ ~log[p][i].ok) =>
      /\ pc[p] = "crashed"
      /\ error[p] = "RetrievalUnavailable"
      /\ Last(log[p]).call = "similarity_search"
      /\ Count(log[p], "llm") = Count(log[p], "similarity_search") - 1
      /\ chat_history[p] = Interleave(answered[p])
      /\ Len(chat_history[p]) = 2 * Count(log[p], "llm")

RetrievalFailureSurfacedWitness ==
  /\ error[1] = "RetrievalUnavailable"
  /\ Len(chat_history[1]) = 2
  /\ Count(log[1], "similarity_search") = 2

\* C10 (as claimed): a collection never holds entries of two builds, and a
\* session that is about to search holds a collection that still exists.
SerializedBuilds ==
  /\ \A n \in DOMAIN store :
       \A e1, e2 \in store[n].entries : e1.id[1] = e2.id[1]
  /\ \A p \in Sessions : pc[p] = "retrieve" => Live(vectorstore[p])

\* C5 (as claimed): a build of the same source documents under the same
\* collection or index name as the build before it leaves the same number of
\* entries and no duplicate entries.  For the Chroma collection this is stated
\* in the form that the collection holds one entry per chunk of the source
\* just built; for the Pinecone index it compares the two latest builds.
RebuildIdempotent ==
  /\ \A p \in Sessions :
       BuildDone(p) =>
         /\ Cardinality(store[collection_name].entries) = Len(chunks[p])
         /\ ~Duplicates(store[collection_name].entries)
  /\ (pine_prev.set /\ pine_prev.dir = pine_last.dir) =>
       /\ pine_last.count = pine_prev.count
       /\ ~pine_last.duplicates

Readable(fs) == SelectSeq(fs, LAMBDA f : f.readable)

\* C7 (as claimed): load_documents on a usable source returns the documents
\* of every source that can be read, skipping the ones that cannot.
IngestionSkipsUnreadable ==
  load_pc = "done" =>
    LET a == load_in.path
        u == load_in.urls
    IN  /\ UsablePath(a) =>
             /\ load_out.err = ""
             /\ load_out.docs = LoadAll(Readable(SelectExt(a.files, "pdf")))
                                \o LoadAll(Readable(SelectExt(a.files, "txt")))
        /\ (~UsablePath(a) /\ u.given /\ u.list # <<>>) =>
             /\ load_out.err = ""
             /\ load_out.docs = LoadAll(Readable(u.list))

\* exit or quit, each letter in either case
IsExitWord(line) ==
  /\ Len(line) = 4
  /\ \/ /\ line[1] \in {"e", "E"} /\ line[2] \in {"x", "X"}
        /\ line[3] \in {"i", "I"} /\ line[4] \in {"t", "T"}
     \/ /\ line[1] \in {"q", "Q"} /\ line[2] \in {"u", "U"}
        /\ line[3] \in {"i", "I"} /\ line[4] \in {"t", "T"}

\* C9: in both interactive loops, a step that reads a line ends the session,
\* with no external call and the memory untouched, exactly when the line is
\* exit or quit in some letter case; any other line (the empty line and lines
\* with surrounding blanks too) starts the processing of a question.
ExitWordsEndSession ==
  [][/\ (pc[1] = "input" /\ <<pc[1], query[1]>>' # <<pc[1], query[1]>>) =>
          IF IsExitWord(query'[1])
          THEN /\ pc'[1] = "closed"
               /\ log'[1] = log[1]
               /\ chat_history'[1] = chat_history[1]
          ELSE /\ pc'[1] = "retrieve"
               /\ asked'[1] = asked[1] + 1
     /\ (cli_pc = "input" /\ <<cli_pc, cli_query>>' # <<cli_pc, cli_query>>) =>
          IF IsExitWord(cli_query')
          THEN /\ cli_pc' = "closed"
               /\ cli_asked' = cli_asked
          ELSE /\ cli_pc' = "stream"
               /\ cli_asked' = cli_asked + 1]_vars

ExitWordsEndSessionWitness ==
  /\ pc[1] = "closed"
  /\ query[1] = <<"E", "X", "I", "T">>
  /\ Len(chat_history[1]) = 2
  /\ chat_history[1][1].content = <<" ", "e", "x", "i", "t">>
  /\ cli_pc = "closed"
  /\ cli_query = <<"Q", "u", "i", "T">>
  /\ cli_asked = 1

\* a tool result that reads as a genuine "nothing found"
NothingFound(out) ==
  \/ out.json = "list" /\ out.items = <<>>
  \/ out.json = "object" /\ out.key = "message"
  \/ /\ out.json = "object"
     /\ out.key = "fields"
     /\ "likely_theaters" \in DOMAIN out.fields
     /\ out.fields.likely_theaters.list = <<"No data found">>

\* a request of the call failed: a non-200 response, an exception, or an
\* error record of the theater lookup
FailedCalls(l) == { i \in 1..Len(l) : l[i].kind \in {"http_error", "exception", "error"} }

\* C11: no failure of an external call is swallowed into a result that looks
\* like a successful "nothing found": when a request of a tool call failed
\* (in particular a non-200 TMDb response in get_now_playing_tmdb), what the
\* tool returns differs from an empty list, a "not found" message and a
\* "No data found" entry.
ErrorsNotSwallowed ==
  (tool_pc = "done" /\ FailedCalls(tool_log) # {}) => ~NothingFound(tool_out)

\* the segments of a rendered prompt from position i on start with segs
SegmentsAt(pr, i, segs) ==
  i + Len(segs) - 1 <= Len(pr) /\ SubSeq(pr, i, i + Len(segs) - 1) = segs

HasSegments(pr, segs) == \E i \in 1..Len(pr) : SegmentsAt(pr, i, segs)

\* the rendered prompt has the instruction, then the context section with
\* the documents in order, then the question section with the question
WellFormedPrompt(pr, context, question) ==
  \E i, j, k \in 1..Len(pr) :
    /\ i < j /\ j < k
    /\ pr[i] = Lit(Instruction)
    /\ SegmentsAt(pr, j, <<Lit("Context:\n")>> \o StrList(context))
    /\ pr[k] = Lit("Question:\n")
    /\ \E m \in (k + 1)..Len(pr) : pr[m].kind # "lit" /\ pr[m].text = question

\* C12: prompt assembly is total: for every context, the empty one included,
\* and every question, both templates render a prompt that holds the literal
\* instruction "I could not find the answer in the document.", the context
\* section and the question; and the rendering is a function of context and
\* question alone (the conversation memory does not change it).
PromptAssemblyTotal ==
  fn_pc = "done" /\ fn_in.fn = "prompt" =>
    /\ WellFormedPrompt(fn_out.rag, fn_in.context, fn_in.question)
    /\ WellFormedPrompt(fn_out.pine, fn_in.context, fn_in.question)
    /\ fn_out.rag = PromptFormat([context |-> fn_in.context,
                                  question |-> [question |-> fn_in.question]])

PromptAssemblyTotalWitness ==
  /\ fn_pc = "done"
  /\ fn_in.fn = "prompt"
  /\ fn_in.context = <<>>
  /\ fn_in.messages # <<>>
  /\ HasSegments(fn_out.rag, <<Lit("Context:\n"), Lit("["), Lit("]")>>)
  /\ HasSegments(fn_out.pine, <<Lit(Instruction)>>)

\* position i of the text lies inside an occurrence of one of the chunks
Covered(text, cs, i) ==
  \E n \in 1..Len(cs) :
    \E o \in 1..(Len(text) - Len(cs[n]) + 1) :
      /\ SubSeq(text, o, o + Len(cs[n]) - 1) = cs[n]
      /\ o <= i
      /\ i < o + Len(cs[n])

\* C13 (as claimed): every character position of the document is contained
\* in at least one chunk produced by split_documents.
ChunksCoverDocument ==
  fn_pc = "done" /\ fn_in.fn = "split" =>
    \A i \in 1..Len(fn_in.text) : Covered(fn_in.text, fn_out.rag, i)

\* C13 (amended): every position of the document that holds a character
\* other than white space is contained in at least one chunk produced by
\* split_documents.
ChunksCoverText ==
  fn_pc = "done" /\ fn_in.fn = "split" =>
    \A i \in 1..Len(fn_in.text) :
      fn_in.text[i] \notin Whitespace => Covered(fn_in.text, fn_out.rag, i)

ChunksCoverTextWitness ==
  /\ fn_pc = "done"
  /\ fn_in.fn = "split"
  /\ Len(fn_out.rag) >= 2
  /\ fn_in.overlap > 0
  /\ \E i \in 1..Len(fn_in.text) : fn_in.text[i] \in Whitespace
  /\ \E i \in 1..Len(fn_in.text) : fn_in.text[i] \notin Whitespace

NoLongChunk(cs, size) == \A n \in 1..Len(cs) : Len(cs[n]) <= size

\* C14 (as claimed): no chunk produced by either chunker is longer than
\* max_size, and a document shorter than max_size yields exactly one chunk.
ChunkSizeAndSingleChunk ==
  fn_pc = "done" /\ fn_in.fn = "split" =>
    /\ NoLongChunk(fn_out.rag, fn_in.size)
    /\ NoLongChunk(fn_out.pine, fn_in.size)
    /\ Len(fn_in.text) < fn_in.size => Len(fn_out.rag) = 1 /\ Len(fn_out.pine) = 1

\* C14 (amended): no chunk produced by either chunker is longer than
\* max_size; a document shorter than max_size yields exactly one chunk, its
\* text without the white space around it, when it holds a character other
\* than white space, and no chunk when it holds none.
ChunkSizeAndSingleChunkText ==
  fn_pc = "done" /\ fn_in.fn = "split" =>
    /\ NoLongChunk(fn_out.rag, fn_in.size)
    /\ NoLongChunk(fn_out.pine, fn_in.size)
    /\ Len(fn_in.text) < fn_in.size =>
         IF Strip(fn_in.text) = <<>>
         THEN fn_out.rag = <<>> /\ fn_out.pine = <<>>
         ELSE fn_out.rag = <<Strip(fn_in.text)>> /\ fn_out.pine = <<Strip(fn_in.text)>>

ChunkSizeAndSingleChunkTextWitness ==
  /\ fn_pc = "done"
  /\ fn_in.fn = "split"
  /\ \/ /\ Len(fn_in.text) < fn_in.size
        /\ Len(fn_out.rag) = 1
        /\ \E i \in 2..(Len(fn_in.text) - 1) : fn_in.text[i] = "."
     \/ /\ Len(fn_in.text) = MaxTextLen
        /\ fn_in.size = 1
        /\ Len(fn_out.pine) = MaxTextLen

\* questions of the session whose two memory entries are stored
Completed(p) == Len(chat_history[p]) \div 2

\* C15: within a session a question is processed to completion before the
\* next line is read, in the order retrieval with the question, prompt
\* assembly, generation, memory append of question then answer; never are
\* two questions in flight.
QuestionStepsInOrder ==
  \A p \in Sessions :
    /\ asked[p] - Completed(p) \in {0, 1}
    /\ pc[p] \in {"input", "closed"} => asked[p] = Completed(p)
    /\ pc[p] = "retrieve" =>
         /\ Count(log[p], "similarity_search") = asked[p] - 1
         /\ Count(log[p], "llm") = asked[p] - 1
         /\ Completed(p) = asked[p] - 1
    /\ pc[p] = "generate" =>
         /\ Count(log[p], "similarity_search") = asked[p]
         /\ Count(log[p], "llm") = asked[p] - 1
         /\ Last(log[p]) = [call |-> "similarity_search", ok |-> TRUE]
         /\ \E i \in 1..Len(prompt[p]) : prompt[p][i] = ReprSeg(query[p])
         /\ Completed(p) = asked[p] - 1
    /\ pc[p] = "append" =>
         /\ Count(log[p], "similarity_search") = asked[p]
         /\ Count(log[p], "llm") = asked[p]
         /\ Last(log[p]) = [call |-> "llm", ok |-> TRUE]
         /\ Completed(p) = asked[p] - 1
    /\ (pc[p] = "input" /\ asked[p] > 0) =>
         /\ chat_history[p][Len(chat_history[p]) - 1] = HumanMessage(query[p])
         /\ Last(chat_history[p]) = AIMessage(result[p])

QuestionStepsInOrderWitness ==
  /\ pc[1] = "append"
  /\ asked[1] = 2
  /\ Len(chat_history[1]) = 2
  /\ query[1] # chat_history[1][1].content

\* the orchestrator state a position of the script belongs to
Phase(l) ==
  CASE l = "idle" -> "UNBUILT"
    [] l \in {"load", "embeddings", "client", "list", "delete", "create", "upsert", "chain"}
         -> "BUILDING"
    [] l = "input" -> "READY"
    [] l \in {"retrieve", "generate", "append"} -> "QUERYING"
    [] l = "closed" -> "CLOSED"
    [] OTHER -> "FAILED"

\* the moves between orchestrator states; FAILED is the script ended by an
\* exception, and a script that ended may be started again
PhaseMoves ==
  { <<"UNBUILT", "BUILDING">>, <<"BUILDING", "READY">>, <<"BUILDING", "FAILED">>,
    <<"READY", "QUERYING">>, <<"READY", "CLOSED">>, <<"QUERYING", "READY">>,
    <<"QUERYING", "FAILED">>, <<"CLOSED", "BUILDING">>, <<"FAILED", "BUILDING">> }

\* every step of the build was reached and returned normally
BuildSucceeded(p) ==
  /\ \A name \in {"HuggingFaceEmbeddings", "CloudClient", "list_collections",
                  "get_or_create_collection"} :
       [call |-> name, ok |-> TRUE] \in {log[p][i] : i \in 1..Len(log[p])}
  /\ chunks[p] # <<>> => [call |-> "upsert", ok |-> TRUE] \in {log[p][i] : i \in 1..Len(log[p])}
  /\ \A i \in 1..Len(log[p]) :
       log[p][i].call \notin {"similarity_search", "llm"} => log[p][i].ok
  /\ load_documents(path[p], NoUrls).err = ""
  /\ vectorstore[p] # 0

\* C16: the orchestrator moves UNBUILT -> BUILDING -> READY -> QUERYING ->
\* READY ... -> CLOSED: a question is accepted or processed only after every
\* build step succeeded; a failed build step ends the run, which never
\* reaches READY; once CLOSED (or ended by an exception) the run processes
\* nothing more.
OrchestratorStates ==
  [][\A p \in Sessions :
       /\ Phase(pc[p]) # Phase(pc'[p]) => <<Phase(pc[p]), Phase(pc'[p])>> \in PhaseMoves
       /\ asked'[p] > asked[p] => pc[p] = "input"
       /\ Phase(pc'[p]) \in {"READY", "QUERYING"} => BuildSucceeded(p)'
       /\ (Phase(pc[p]) = "BUILDING" /\ log'[p] # log[p] /\ ~Last(log'[p]).ok)
            => pc'[p] = "crashed"
       /\ (Phase(pc[p]) = "BUILDING" /\ error'[p] # "") => pc'[p] = "crashed"
       /\ (pc[p] \in {"closed", "crashed"} /\ run'[p] = run[p])
            => /\ pc'[p] = pc[p]
               /\ asked'[p] = asked[p]
               /\ log'[p] = log[p]
               /\ chat_history'[p] = chat_history[p]]_vars

OrchestratorStatesWitness ==
  /\ pc[1] = "closed"
  /\ run[1] = 2
  /\ Len(chat_history[1]) = 2
  /\ BuildSucceeded(1)

IsPrefix(a, b) == Len(a) <= Len(b) /\ SubSeq(b, 1, Len(a)) = a

\* C17: the conversation memory is append-only and belongs to the session:
\* it is empty when the chain has been built, every later step of the
\* session leaves the earlier contents as a prefix of the new contents, and
\* the steps that read it (prompt assembly, printing) leave it unchanged.
MemoryAppendOnly ==
  [][\A p \in Sessions :
       /\ (pc[p] = "chain" /\ pc'[p] = "input") => chat_history'[p] = <<>>
       /\ run'[p] = run[p] /\ pc[p] # "chain" => IsPrefix(chat_history[p], chat_history'[p])
       /\ (run'[p] = run[p] /\ pc[p] \notin {"chain", "append"})
            => chat_history'[p] = chat_history[p]
       /\ (pc[p] = "append" /\ run'[p] = run[p])
            => Len(chat_history'[p]) = Len(chat_history[p]) + 2]_vars

MemoryAppendOnlyWitness ==
  /\ pc[1] = "generate"
  /\ Len(chat_history[1]) = 2
  /\ prompt[1] # <<>>
  /\ run[1] > 1

\* the movies of the responses, in the order of the requests
RECURSIVE AllResults(_)
AllResults(reqs) ==
  IF reqs = <<>> THEN <<>> ELSE Head(reqs).results \o AllResults(Tail(reqs))

\* C18: get_now_playing_tmdb of tmdb.py asks for pages 1, 2, 3, ... in
\* increasing order, each once; it returns the accumulated movies right
\* after the first page whose number is at least the total_pages of that
\* page's response (1 when absent); without an API key it raises ValueError
\* before any request; a response other than 200 raises RuntimeError, so no
\* partial list is returned.
TmdbPaging ==
  LET r == tmdb_requests
      n == Len(tmdb_requests)
  IN  /\ \A i \in 1..n : r[i].page = i
      /\ \A i \in 1..(n - 1) : r[i].kind = "ok" /\ r[i].page < r[i].total
      /\ (tmdb_pc = "fetch") =>
           /\ tmdb_movies = Pending
           /\ tmdb_page = n + 1
           /\ n > 0 => r[n].kind = "ok" /\ r[n].page < r[n].total
      /\ (tmdb_caller # "" /\ tmdb_key = "") =>
           tmdb_movies = Raises("ValueError") /\ n = 0
      /\ tmdb_movies.state = "returned" =>
           /\ n > 0
           /\ r[n].kind = "ok"
           /\ r[n].page >= r[n].total
           /\ tmdb_movies.value = AllResults(r)
      /\ (\E i \in 1..n : r[i].kind = "http_error") => tmdb_movies = Raises("RuntimeError")

TmdbPagingWitness ==
  /\ tmdb_movies.state = "returned"
  /\ Len(tmdb_requests) >= 2
  /\ tmdb_requests[1].results # <<>>
  /\ tmdb_requests[Len(tmdb_requests)].total < Len(tmdb_requests)

\* C19 (as claimed): whenever the movie fetch succeeded, main() returns a
\* mapping with the keys movies and theaters: theaters is the fetched list
\* when a Google key is set and the lookup succeeded, and the empty list when
\* the key is absent or the lookup failed.
MainAlwaysReturns ==
  (tmdb_caller = "main" /\ tmdb_pc = "done" /\ tmdb_movies.state = "returned") =>
    /\ tmdb_main.state = "returned"
    /\ tmdb_main.value.movies = tmdb_movies.value
    /\ ("Failed to fetch Google Places data" \in {tmdb_printed[i] : i \in 1..Len(tmdb_printed)}
          \/ tmdb_google = "")
         => tmdb_main.value.theaters = <<>>
    /\ Len(tmdb_main.value.theaters) <= GoogleLimit
    /\ "Found theaters" \in {tmdb_printed[i] : i \in 1..Len(tmdb_printed)}
         => tmdb_main.value.theaters # <<>>

\* a streamed update that carries a final answer: a model message without
\* function call whose cleaned text is not blank
IsFinalChunk(chunk) ==
  /\ chunk.node = "model"
  /\ ~chunk.function_call
  /\ Strip(Clean(ContentText(chunk.content))) # <<>>

\* the lines the loop prints for the first n updates of a stream
RECURSIVE TraceOf(_, _)
TraceOf(st, n) ==
  IF n = 0 THEN <<"Reasoning Trace">>
  ELSE LET chunk == st[n] IN
       TraceOf(st, n - 1)
       \o (IF chunk.node = "model" /\ chunk.function_call THEN <<"Action">>
           ELSE IF IsFinalChunk(chunk) THEN <<"Final Answer">>
           ELSE IF chunk.node = "tools" THEN <<"Observation">>
           ELSE <<>>)

\* C20: for each question of the CLI movie agent at most one Final Answer is
\* printed; it is the first streamed model message without function call
\* whose cleaned text is not blank; every Action and Observation line of the
\* question is printed before it, no update is consumed after it, and the
\* loop is back at reading the next line.
SingleFinalAnswer ==
  LET finals == { i \in 1..Len(cli_trace) : cli_trace[i] = "Final Answer" }
      firsts == { n \in 1..Len(cli_stream) :
                    IsFinalChunk(cli_stream[n])
                    /\ \A m \in 1..(n - 1) : ~IsFinalChunk(cli_stream[m]) }
  IN  /\ Cardinality(finals) <= 1
      /\ finals # {} =>
           /\ finals = {Len(cli_trace)}
           /\ cli_pc = "input"
           /\ firsts = {cli_pos}
           /\ cli_final = [set |-> TRUE,
                           text |-> FinalAnswer(Clean(ContentText(cli_stream[cli_pos].content)))]
           /\ cli_trace = TraceOf(cli_stream, cli_pos)
      /\ cli_pc = "stream" =>
           /\ finals = {}
           /\ \A m \in 1..cli_pos : ~IsFinalChunk(cli_stream[m])
           /\ cli_trace = TraceOf(cli_stream, cli_pos)
      /\ (cli_pc = "input" /\ cli_asked > 0 /\ finals = {}) => firsts = {}

SingleFinalAnswerWitness ==
  /\ cli_pc = "input"
  /\ cli_trace = <<"Reasoning Trace", "Observation", "Final Answer">>
  /\ cli_pos = 2
  /\ Len(cli_stream) = 4
  /\ cli_asked = 2

\* the calls of get_theaters_open made by the current tool call
Lookups == { i \in 1..Len(tool_log) : tool_log[i].call = "theaters" }

\* get_theaters_open returned one of its three mappings, the one its
\* requests' outcomes call for, and the tool get_theaters passed it on
LookupReturnsMapping ==
  /\ \A i \in Lookups :
       LET e == tool_log[i] IN
       /\ e.kind \in {"error", "message", "result"}
       /\ e.geo \in {"exception", "malformed", "empty"} => e.kind = "error"
       /\ (e.geo = "ok" /\ e.over = "exception") => e.kind = "error"
       /\ (e.geo = "ok" /\ e.over \in {"no_key", "empty"}) => e.kind = "message"
       /\ (e.geo = "ok" /\ e.over = "elements") => e.kind = "result"
       /\ e.kind = "result" => e.count >= 1 /\ e.count <= TheaterLimit
       /\ e.kind # "result" => e.count = 0
  /\ (tool_pc = "done" /\ tool_name = "get_theaters") =>
       /\ Lookups = {1}
       /\ tool_out.json = "object"
       /\ tool_out.key = (CASE tool_log[1].kind = "error" -> "error"
                            [] tool_log[1].kind = "message" -> "message"
                            [] OTHER -> "fields")
       /\ tool_out.key = "fields" => Len(tool_out.fields.theaters) = tool_log[1].count

\* find_movie_in_city ended after a lookup that gave an error or a message
LookupGaveNothing ==
  /\ tool_pc = "done"
  /\ tool_name = "find_movie_in_city"
  /\ \E i \in Lookups : tool_log[i].kind \in {"error", "message"}

ReportsNoData(out) ==
  /\ out.json = "object"
  /\ out.key = "fields"
  /\ out.fields.likely_theaters = [list |-> <<"No data found">>]

\* C21: get_theaters_open never raises: for every outcome of
\* the geocoding and Overpass calls it returns exactly one of an error
\* record, a "No theaters found" message record, or a result with at most
\* limit theaters; and find_movie_in_city reports "No data found" for
\* likely_theaters whenever the lookup returned an error or a message.
TheaterLookupNeverRaises ==
  /\ LookupReturnsMapping
  /\ LookupGaveNothing => ReportsNoData(tool_out)

====
